---- MODULE Spec2Model ----
(***************************************************************************)
(* A model of pyrant's lazy query layer (src/pyrant/query.py): the Query   *)
(* builder, Condition/Lookup compilation, Ordering, and the chunked        *)
(* ResultCache, together with the requests they send to the protocol.      *)
(*                                                                         *)
(* Python objects that can be aliased (lists, Condition objects, Query     *)
(* objects, ResultCache objects) live in heaps indexed by object id, so    *)
(* that sharing and copying are visible in the state.                      *)
(***************************************************************************)
EXTENDS Integers, Sequences, FiniteSets, TLC

(***************************************************************************)
(* Bounds of the model.                                                    *)
(***************************************************************************)
\* number of distinct keys the remote table may hold
MaxKeys == 3
\* largest custom chunk size given to ResultCache besides the default
MaxChunk == 2
\* number of Query objects a builder run may create
MaxQueries == 3

(***************************************************************************)
(* Program constants.                                                      *)
(***************************************************************************)
CACHE_CHUNK_SIZE == 1000

VARIABLES
    conds,      \* heap of Condition objects: id -> [name, lookup, expr, negate]
    lists,      \* heap of Python list objects: id -> sequence of object ids
    queries,    \* heap of Query objects
    caches,     \* heap of ResultCache objects
    nsearch,    \* per ResultCache: number of key-list searches sent for it
    nfetch,     \* per ResultCache: chunk number -> number of multi-gets sent
    sent,       \* the requests the last operation sent to the protocol, in order
    ret,        \* the outcome of the last operation
    tyrant,     \* the Tyrant object in use and the store behind it, if any
    callers     \* the callers at work inside one ResultCache, or the key
                \* generators open on one session, if any

vars == <<conds, lists, queries, caches, nsearch, nfetch, sent, ret, tyrant,
          callers>>

(***************************************************************************)
(* Python values.  None is the empty option, Some(x) a present value.      *)
(***************************************************************************)
None == <<>>
Some(x) == <<x>>
IsNone(o) == o = <<>>
Val(o) == o[1]

\* With(e, LAMBDA x : body) is LET x == e IN body, with e evaluated once
With(e, F(_)) == CHOOSE y \in {F(x) : x \in {e}} : TRUE

\* expression values a caller may pass to filter()/exclude()
PyStr(s) == [kind |-> "str", s |-> s, n |-> 0, items |-> <<>>]
PyInt(n) == [kind |-> "int", s |-> "", n |-> n, items |-> <<>>]
PyBool(b) == [kind |-> "bool", s |-> "", n |-> IF b THEN 1 ELSE 0, items |-> <<>>]
PyList(xs) == [kind |-> "list", s |-> "", n |-> 0, items |-> xs]

\* hasattr(value, '__iter__'): true of lists, false of str/int/bool (Python 2)
HasIter(v) == v.kind = "list"

\* strings int() can parse
IntParsable(s) == s \in {"12", "7"}

\* str.lower() on the strings of the model
Lower(s) ==
    CASE s = "Foo" -> "foo"
      [] s = "Bar" -> "bar"
      [] OTHER -> s

(***************************************************************************)
(* Lookup: one candidate definition of a lookup name.                      *)
(* min_args / max_args of None are written 0 (both are falsy in the code). *)
(***************************************************************************)
Lookup(constant) ==
    [operator |-> constant, iterable |-> FALSE, string |-> FALSE,
     numeric |-> FALSE, boolean |-> FALSE, value |-> None,
     min_args |-> 0, max_args |-> 0, extra |-> FALSE,
     has_custom_value |-> FALSE]

\* ExistanceLookup is Lookup with has_custom_value = True
ExistanceLookup(constant) ==
    [Lookup(constant) EXCEPT !.has_custom_value = TRUE]

\* Lookup.accepts: does the value have the shape this definition expects?
accepts(d, value) ==
    IF d.iterable /\ ~HasIter(value)
    THEN FALSE
    ELSE LET v == IF d.iterable /\ Len(value.items) > 0
                  THEN value.items[1]
                  ELSE value
         IN /\ (d.boolean => v.kind = "bool")
            /\ (d.numeric =>
                    \/ v.kind \in {"int", "bool"}
                    \/ (v.kind = "str" /\ IntParsable(v.s)))
            /\ (d.string => v.kind = "str")

\* validate without the test of max_args
validate_min_only(d, value) ==
    IF HasIter(value)
    THEN ~(d.min_args # 0 /\ Len(value.items) < d.min_args)
    ELSE TRUE

\* Lookup.validate: TRUE when the value passes, FALSE when it raises ValueError
validate(d, value) ==
    IF HasIter(value)
    THEN /\ ~(d.min_args # 0 /\ Len(value.items) < d.min_args)
         /\ ~(d.max_args # 0 /\ d.max_args < Len(value.items))
    ELSE TRUE

\* the per-element transform (lambda v: v.lower())
extra(v) == IF v.kind = "str" THEN PyStr(Lower(v.s)) ELSE v

\* Lookup.process_value
process_value(d, value) ==
    IF d.extra
    THEN IF HasIter(value)
         THEN PyList([i \in 1..Len(value.items) |-> extra(value.items[i])])
         ELSE extra(value)
    ELSE value

\* utils.from_python: booleans are stored as 1 / ''
from_python(value) ==
    IF value.kind = "bool"
    THEN IF value.n = 1 THEN PyInt(1) ELSE PyStr("")
    ELSE value

\* unicode(x) of a scalar
unicode(x) ==
    CASE x.kind = "str" -> x.s
      [] x.kind = "int" -> ToString(x.n)
      [] x.kind = "bool" -> IF x.n = 1 THEN "True" ELSE "False"
      [] OTHER -> "?"

\* ', '.join(unicode(x) for x in value): the comma-joined string, kept as the
\* sequence of its parts (a one-part join is the part itself)
flatten(value) ==
    IF HasIter(value)
    THEN IF Len(value.items) = 0 THEN PyStr("")
         ELSE IF Len(value.items) = 1 THEN PyStr(unicode(value.items[1]))
         ELSE [kind |-> "joined", s |-> "", n |-> 0,
               items |-> [i \in 1..Len(value.items) |-> unicode(value.items[i])]]
    ELSE value

(***************************************************************************)
(* Condition.LOOKUP_DEFINITIONS                                            *)
(***************************************************************************)
KnownLookups ==
    {"between", "contains", "contains_any", "endswith", "exists", "gt", "gte",
     "in", "is", "like", "like_any", "lt", "lte", "matches", "search",
     "startswith"}

LOOKUP_DEFINITIONS(lookup) ==
    CASE lookup = "between" ->
            << [Lookup("RDBQCNUMBT") EXCEPT !.iterable = TRUE, !.numeric = TRUE,
                                            !.min_args = 2, !.max_args = 2] >>
      [] lookup = "contains" ->
            << [Lookup("RDBQCSTRINC") EXCEPT !.string = TRUE],
               [Lookup("RDBQCSTRAND") EXCEPT !.iterable = TRUE, !.string = TRUE] >>
      [] lookup = "contains_any" ->
            << [Lookup("RDBQCSTROR") EXCEPT !.iterable = TRUE, !.string = TRUE] >>
      [] lookup = "endswith" ->
            << [Lookup("RDBQCSTREW") EXCEPT !.string = TRUE] >>
      [] lookup = "exists" ->
            << [ExistanceLookup("RDBQCSTRRX") EXCEPT !.boolean = TRUE,
                                                     !.value = Some(PyStr(""))] >>
      [] lookup = "gt" ->
            << [Lookup("RDBQCNUMGT") EXCEPT !.numeric = TRUE] >>
      [] lookup = "gte" ->
            << [Lookup("RDBQCNUMGE") EXCEPT !.numeric = TRUE] >>
      [] lookup = "in" ->
            << [Lookup("RDBQCSTROREQ") EXCEPT !.iterable = TRUE, !.string = TRUE],
               [Lookup("RDBQCNUMOREQ") EXCEPT !.iterable = TRUE, !.numeric = TRUE] >>
      [] lookup = "is" ->
            << [Lookup("RDBQCNUMEQ") EXCEPT !.numeric = TRUE],
               Lookup("RDBQCSTREQ") >>
      [] lookup = "like" ->
            << [Lookup("RDBQCFTSPH") EXCEPT !.string = TRUE, !.extra = TRUE],
               [Lookup("RDBQCFTSAND") EXCEPT !.iterable = TRUE, !.string = TRUE,
                                             !.extra = TRUE] >>
      [] lookup = "like_any" ->
            << [Lookup("RDBQCFTSOR") EXCEPT !.iterable = TRUE, !.string = TRUE,
                                            !.extra = TRUE] >>
      [] lookup = "lt" ->
            << [Lookup("RDBQCNUMLT") EXCEPT !.numeric = TRUE] >>
      [] lookup = "lte" ->
            << [Lookup("RDBQCNUMLE") EXCEPT !.numeric = TRUE] >>
      [] lookup = "matches" ->
            << [Lookup("RDBQCSTRRX") EXCEPT !.string = TRUE] >>
      [] lookup = "search" ->
            << [Lookup("RDBQCFTSEX") EXCEPT !.string = TRUE] >>
      [] lookup = "startswith" ->
            << [Lookup("RDBQCSTRBW") EXCEPT !.string = TRUE] >>
      [] OTHER -> << >>

(***************************************************************************)
(* Condition                                                               *)
(***************************************************************************)
\* Condition._parse_lookup.  A keyword is given as its parts around the first
\* "__": <<"price", "gt">> is price__gt, <<"name">> is the bare column name.
_parse_lookup(kw) ==
    IF Len(kw) > 1 THEN <<kw[1], kw[2]>> ELSE <<kw[1], "is">>

\* Condition.__init__
Condition(kw, expr, negate) ==
    [name |-> _parse_lookup(kw)[1], lookup |-> _parse_lookup(kw)[2],
     expr |-> expr, negate |-> negate]

PrepareError(kind) ==
    [status |-> kind, name |-> "", op |-> "", negate |-> FALSE, value |-> PyStr("")]

\* the first definition of the list that accepts the expression (the scan of
\* Condition.prepare), as an option
FirstAccepting(definitions, expr) ==
    IF \E i \in 1..Len(definitions) : accepts(definitions[i], expr)
    THEN Some(definitions[CHOOSE i \in 1..Len(definitions) :
                            /\ accepts(definitions[i], expr)
                            /\ \A j \in 1..(i - 1) : ~accepts(definitions[j], expr)])
    ELSE None

\* the body of the scan keeping the caller's negation whatever the value
Compile_negation_kept(c, definition) ==
    IF ~validate(definition, c.expr)
    THEN PrepareError("ValueError")
    ELSE [status |-> "ok",
          name |-> c.name,
          op |-> definition.operator,
          negate |-> c.negate,
          value |-> flatten(from_python(
                        IF definition.has_custom_value
                        THEN Val(definition.value)
                        ELSE process_value(definition, c.expr)))]

\* the body of the scan of Condition.prepare for the accepting definition
Compile(c, definition) ==
    IF ~validate(definition, c.expr)
    THEN PrepareError("ValueError")
    ELSE [status |-> "ok",
          name |-> c.name,
          op |-> definition.operator,
          negate |-> IF /\ definition.has_custom_value
                        /\ c.expr.kind = "bool"
                        /\ c.expr.n = 0
                     THEN ~c.negate
                     ELSE c.negate,
          value |-> flatten(from_python(
                        IF definition.has_custom_value
                        THEN Val(definition.value)
                        ELSE process_value(definition, c.expr)))]

\* prepare without the test of the registry: the dict lookup
\* LOOKUP_DEFINITIONS[self.lookup] raises KeyError for an unknown name
prepare_unchecked_registry(c) ==
    IF c.lookup \notin KnownLookups
    THEN PrepareError("KeyError")
    ELSE With(FirstAccepting(LOOKUP_DEFINITIONS(c.lookup), c.expr),
              LAMBDA d : IF IsNone(d)
                         THEN PrepareError("ValueError")
                         ELSE Compile(c, Val(d)))

\* Condition.prepare: the search-ready triple (column, operator with the
\* negation bit, expression), or the error it raises
prepare(c) ==
    IF c.lookup \notin KnownLookups
    THEN PrepareError("NameError")
    ELSE With(FirstAccepting(LOOKUP_DEFINITIONS(c.lookup), c.expr),
              LAMBDA d : IF IsNone(d)
                         THEN PrepareError("ValueError")
                         ELSE Compile(c, Val(d)))

(***************************************************************************)
(* Ordering                                                                *)
(***************************************************************************)
ASC == 0
DESC == 1
ALPHABETIC == 0
NUMERIC == 1

\* Ordering.__init__(name=None, direction=None, numeric=False);
\* name and direction are options
Ordering(name, direction, numeric) ==
    [name |-> name,
     direction |-> IF IsNone(direction) \/ Val(direction) = 0 THEN ASC
                   ELSE Val(direction),
     method |-> IF numeric THEN NUMERIC ELSE ALPHABETIC]

\* __eq__ comparing the column names only
Ordering__eq__name_only(a, b) == a.name = b.name

\* Ordering.__eq__
Ordering__eq__(a, b) ==
    /\ a.name = b.name
    /\ a.direction = b.direction
    /\ a.method = b.method

\* Ordering.__nonzero__: bool(self.name)
Ordering__nonzero__(o) == ~IsNone(o.name) /\ Val(o.name) # ""

\* type looked up by direction alone, in the alphabetic row
Ordering_type_by_direction(o) ==
    IF o.direction = DESC THEN "RDBQOSTRDESC" ELSE "RDBQOSTRASC"

\* Ordering.type: PROTOCOL_MAP[direction][method]
Ordering_type(o) ==
    IF o.direction = DESC
    THEN IF o.method = NUMERIC THEN "RDBQONUMDESC" ELSE "RDBQOSTRDESC"
    ELSE IF o.method = NUMERIC THEN "RDBQONUMASC" ELSE "RDBQOSTRASC"

(***************************************************************************)
(* The remote table, as the protocol layer presents it.                    *)
(***************************************************************************)
KeyNames == <<"a", "b", "c", "d", "e", "f">>
Keys == {KeyNames[i] : i \in 1..MaxKeys}

\* the raw record stored under a key: NUL-separated tokens of a table record
RawValue(k) ==
    CASE k = "a" -> <<"name", "Foo", "price", "1">>
      [] k = "b" -> <<"name", "Bar">>
      [] k = "c" -> <<"">>
      [] OTHER -> <<"name", k>>

\* protocol.mget(keys): one (key, raw value) pair per requested key, in order
mget(keys) == [i \in 1..Len(keys) |-> <<keys[i], RawValue(keys[i])>>]

\* the key lists a search may return: the matching keys, in the table's order
RECURSIVE SubLists(_)
SubLists(n) ==
    IF n = 0 THEN {<<>>}
    ELSE SubLists(n - 1) \cup {Append(l, KeyNames[n]) : l \in SubLists(n - 1)}

KeyLists == SubLists(MaxKeys)

DB_TABLE == "table"

\* utils.to_python(elem, dbtype) with sep=None; elem is the token sequence of
\* elem.split(NUL).  A table record becomes a dict (column -> value), an
\* empty one None; any other database type returns the element unchanged.
to_python(elem, dbtype) ==
    IF dbtype = DB_TABLE
    THEN IF elem[1] # ""
         THEN Some([col \in {elem[i] : i \in {j \in 1..Len(elem) : j % 2 = 1}} |->
                     LET last == CHOOSE i \in 1..Len(elem) :
                                    /\ i % 2 = 1 /\ elem[i] = col
                                    /\ \A j \in 1..Len(elem) :
                                          (j % 2 = 1 /\ elem[j] = col) => j <= i
                     IN elem[last + 1]])
         ELSE None
    ELSE Some(elem)

\* to_python raises IndexError on a table element with an odd number of
\* tokens whose first token is not empty (elems[i+1] is out of range)
to_python_raises(elem, dbtype) ==
    dbtype = DB_TABLE /\ elem[1] # "" /\ Len(elem) % 2 = 1

(***************************************************************************)
(* ResultCache                                                             *)
(***************************************************************************)
\* ResultCache.__init__(query, chunk_size=None); chunk_size is an option
ResultCache(chunk_size) ==
    [keys |-> None,
     chunks |-> <<>>,
     chunk_size |-> IF IsNone(chunk_size) \/ Val(chunk_size) = 0
                    THEN CACHE_CHUNK_SIZE
                    ELSE Val(chunk_size)]

\* get_chunk_number rounding up
get_chunk_number_rounded_up(c, index) ==
    (index + c.chunk_size - 1) \div c.chunk_size

\* ResultCache.get_chunk_number
get_chunk_number(c, index) == index \div c.chunk_size

\* get_chunk_boundaries with the right boundary one past the chunk's end
get_chunk_boundaries_overlapping(c, number) ==
    <<number * c.chunk_size, number * c.chunk_size + c.chunk_size>>

\* ResultCache.get_chunk_boundaries
get_chunk_boundaries(c, number) ==
    LET start == number * c.chunk_size
    IN <<start, start + c.chunk_size - 1>>

\* keys[start:stop] of a Python list, for 0 <= start
PySlice(l, start, stop) ==
    SubSeq(l, start + 1, IF stop < Len(l) THEN stop ELSE Len(l))

\* [prep(k,v) for k,v in pairs]: each raw value decoded and paired with its key
ChunkItems(pairs, dbtype) ==
    [i \in 1..Len(pairs) |-> <<pairs[i][1], to_python(pairs[i][2], dbtype)>>]

\* get_chunk_data without the test `number in self.chunks`: the chunk is
\* fetched on every call
get_chunk_data_always_fetch(c, number, dbtype) ==
    With(PySlice(Val(c.keys), get_chunk_boundaries(c, number)[1],
                 get_chunk_boundaries(c, number)[2] + 1),
         LAMBDA keys :
           IF keys = <<>>
           THEN [cache |-> c, data |-> None, fetched |-> <<>>]
           ELSE [cache |-> [c EXCEPT !.chunks =
                               (number :> ChunkItems(mget(keys), dbtype)) @@ @],
                 data |-> Some(ChunkItems(mget(keys), dbtype)),
                 fetched |-> <<[chunk |-> number, keys |-> keys]>>])

\* get_chunk_data taking self.keys[start:], the right boundary forgotten
get_chunk_data_open_slice(c, number, dbtype) ==
    IF number \notin DOMAIN c.chunks
    THEN With(PySlice(Val(c.keys), get_chunk_boundaries(c, number)[1],
                      Len(Val(c.keys))),
              LAMBDA keys :
                IF Len(Val(c.keys)) <= get_chunk_boundaries(c, number)[1]
                   \/ keys = <<>>
                THEN [cache |-> c, data |-> None, fetched |-> <<>>]
                ELSE [cache |-> [c EXCEPT !.chunks =
                                   (number :> ChunkItems(mget(keys), dbtype)) @@ @],
                      data |-> Some(ChunkItems(mget(keys), dbtype)),
                      fetched |-> <<[chunk |-> number, keys |-> keys]>>])
    ELSE [cache |-> c, data |-> Some(c.chunks[number]), fetched |-> <<>>]

\* ResultCache.get_chunk_data.  Returns the cache afterwards, the chunk's
\* items as an option (None when there are no items for the chunk), and the
\* multi-get requests sent.
get_chunk_data(c, number, dbtype) ==
    IF number \notin DOMAIN c.chunks
    THEN With(PySlice(Val(c.keys), get_chunk_boundaries(c, number)[1],
                      get_chunk_boundaries(c, number)[2] + 1),
              LAMBDA keys :
                IF Len(Val(c.keys)) <= get_chunk_boundaries(c, number)[1]
                   \/ keys = <<>>
                THEN [cache |-> c, data |-> None, fetched |-> <<>>]
                ELSE With(ChunkItems(mget(keys), dbtype),
                          LAMBDA items :
                            [cache |-> [c EXCEPT !.chunks = (number :> items) @@ @],
                             data |-> Some(items),
                             fetched |-> <<[chunk |-> number, keys |-> keys]>>]))
    ELSE [cache |-> c, data |-> Some(c.chunks[number]), fetched |-> <<>>]

\* items[offset] of a Python list, for 0 <= offset: the item, or IndexError
PyIndex(items, offset) ==
    [status |-> IF offset < Len(items) THEN "ok" ELSE "IndexError",
     item |-> IF offset < Len(items) THEN Some(items[offset + 1]) ELSE None]

\* get_item taking items[index], the chunk's first index not subtracted
get_item_absolute_offset(c, index, dbtype) ==
    With(get_chunk_data(c, get_chunk_number(c, index), dbtype),
         LAMBDA r :
           With(PyIndex(IF IsNone(r.data) THEN <<>> ELSE Val(r.data), index),
                LAMBDA x :
                  [cache |-> r.cache, fetched |-> r.fetched,
                   status |-> x.status, item |-> x.item]))

\* get_item answering the chunk's last item for an index past it
get_item_clamped(c, index, dbtype) ==
    With(get_chunk_data(c, get_chunk_number(c, index), dbtype),
         LAMBDA r :
           With(PyIndex(IF IsNone(r.data) THEN <<>> ELSE Val(r.data),
                        IF IsNone(r.data) \/ index - get_chunk_boundaries(c, get_chunk_number(c, index))[1] < Len(Val(r.data))
                        THEN index - get_chunk_boundaries(c, get_chunk_number(c, index))[1]
                        ELSE Len(Val(r.data)) - 1),
                LAMBDA x :
                  [cache |-> r.cache, fetched |-> r.fetched,
                   status |-> x.status, item |-> x.item]))

\* ResultCache.get_item.  status is "ok" or the exception raised by the
\* list indexing.
get_item(c, index, dbtype) ==
    With(get_chunk_data(c, get_chunk_number(c, index), dbtype),
         LAMBDA r :
           With(PyIndex(IF IsNone(r.data) THEN <<>> ELSE Val(r.data),
                        index - get_chunk_boundaries(c, get_chunk_number(c, index))[1]),
                LAMBDA x :
                  [cache |-> r.cache, fetched |-> r.fetched,
                   status |-> x.status, item |-> x.item]))

\* Python truthiness of an optional integer
Truthy(o) == ~IsNone(o) /\ Val(o) # 0

\* the for loop of get_items over one chunk's data: the items it yields
\* (those at absolute index >= start, up to the first index >= stop)
Yielded(data, chunk_start, start, stop) ==
    With(SelectSeq([i \in 1..Len(data) |-> <<chunk_start + i - 1, data[i]>>],
                   LAMBDA p : /\ start <= p[1]
                              /\ (Truthy(stop) => p[1] < Val(stop))),
         LAMBDA ys : [i \in 1..Len(ys) |-> ys[i][2]])

\* whether that for loop raised StopIteration inside the chunk
StoppedIn(data, chunk_start, stop) ==
    Truthy(stop) /\ \E i \in 0..(Len(data) - 1) : Val(stop) <= chunk_start + i

\* the loop of get_items without the test of stop against the start of
\* the chunk: the chunk after the range is asked for before the loop ends
RECURSIVE get_items_loop_unchecked_start(_, _, _, _, _, _, _)
get_items_loop_unchecked_start(c, start, stop, chunk, dbtype, items, fetched) ==
    With(get_chunk_data(c, chunk, dbtype),
         LAMBDA r :
           IF IsNone(r.data)
           THEN [cache |-> r.cache, items |-> items,
                 fetched |-> fetched \o r.fetched]
           ELSE IF StoppedIn(Val(r.data), get_chunk_boundaries(c, chunk)[1], stop)
           THEN [cache |-> r.cache,
                 items |-> items \o Yielded(Val(r.data),
                               get_chunk_boundaries(c, chunk)[1], start, stop),
                 fetched |-> fetched \o r.fetched]
           ELSE get_items_loop_unchecked_start(r.cache, start, stop, chunk + 1,
                               dbtype,
                               items \o Yielded(Val(r.data),
                                   get_chunk_boundaries(c, chunk)[1], start, stop),
                               fetched \o r.fetched))

\* the loop of ResultCache.get_items, from chunk number `chunk` on, consumed
\* to its end (list(items)); items and fetched carry the result so far
RECURSIVE get_items_loop(_, _, _, _, _, _, _)
get_items_loop(c, start, stop, chunk, dbtype, items, fetched) ==
    IF Truthy(stop) /\ Val(stop) <= get_chunk_boundaries(c, chunk)[1]
    THEN [cache |-> c, items |-> items, fetched |-> fetched]
    ELSE With(get_chunk_data(c, chunk, dbtype),
              LAMBDA r :
                IF IsNone(r.data)
                THEN [cache |-> r.cache, items |-> items,
                      fetched |-> fetched \o r.fetched]
                ELSE IF StoppedIn(Val(r.data), get_chunk_boundaries(c, chunk)[1], stop)
                THEN [cache |-> r.cache,
                      items |-> items \o Yielded(Val(r.data),
                                    get_chunk_boundaries(c, chunk)[1], start, stop),
                      fetched |-> fetched \o r.fetched]
                ELSE get_items_loop(r.cache, start, stop, chunk + 1, dbtype,
                                    items \o Yielded(Val(r.data),
                                        get_chunk_boundaries(c, chunk)[1], start, stop),
                                    fetched \o r.fetched))

\* ResultCache.get_items(start, stop) consumed by list(); stop is an option
get_items(c, start, stop, dbtype) ==
    IF Truthy(stop) /\ ~(start < Val(stop))
    THEN [cache |-> c, items |-> <<>>, fetched |-> <<>>,
          status |-> "AssertionError"]
    ELSE With(get_items_loop(c, start, stop, get_chunk_number(c, start),
                             dbtype, <<>>, <<>>),
              LAMBDA r : [cache |-> r.cache, items |-> r.items,
                          fetched |-> r.fetched, status |-> "ok"])

(***************************************************************************)
(* The object heap.  An operation is a function of the heap record         *)
(* [conds, lists, queries, caches]; it returns the heap afterwards and the *)
(* id of the object it created.                                            *)
(***************************************************************************)
Heap == [conds |-> conds, lists |-> lists, queries |-> queries, caches |-> caches]

\* a new Python list object holding `elems`
AllocList(h, elems) ==
    [h |-> [h EXCEPT !.lists = Append(@, elems)], id |-> Len(h.lists) + 1]

\* the Condition objects of a list, dereferenced
Deref(h, lid) == [i \in 1..Len(h.lists[lid]) |-> h.conds[h.lists[lid][i]]]

\* the branches of a query, dereferenced (empty when there are none)
DerefBranches(h, self) ==
    IF IsNone(self.ms_conditions) THEN <<>>
    ELSE [i \in 1..Len(h.lists[Val(self.ms_conditions)]) |->
             Deref(h, h.lists[Val(self.ms_conditions)][i])]

\* [c._clone() for c in <list lid>]: a new list of new Condition objects,
\* each a shallow copy (copy.copy) of the corresponding element
CloneConds(h, lid) ==
    AllocList([h EXCEPT !.conds = @ \o Deref(h, lid)],
              [i \in 1..Len(h.lists[lid]) |-> Len(h.conds) + i])

\* [[query._clone() for query in conds] for conds in self._ms_conditions],
\* branch by branch; acc collects the ids of the new branch lists
RECURSIVE CloneBranches(_, _, _)
CloneBranches(h, branches, acc) ==
    IF branches = <<>>
    THEN [h |-> h, ids |-> acc]
    ELSE With(CloneConds(h, Head(branches)),
              LAMBDA r : CloneBranches(r.h, Tail(branches), Append(acc, r.id)))

\* Query.__init__: conditions is the id of the list passed in, ms_conditions
\* an option of a list id.  The new Query gets the default Ordering and a
\* fresh ResultCache of the default chunk size.
Query(h, db_type, conditions, ms_type, ms_conditions) ==
    [h |-> [h EXCEPT
              !.caches = Append(@, ResultCache(None)),
              !.queries = Append(@,
                  [conditions |-> conditions,
                   ordering |-> Ordering(None, None, FALSE),
                   db_type |-> db_type,
                   ms_type |-> ms_type,
                   ms_conditions |-> ms_conditions,
                   cache |-> Len(h.caches) + 1])],
     id |-> Len(h.queries) + 1]

\* Python truthiness of self._ms_conditions: not None and not empty
MsTruthy(h, self) ==
    ~IsNone(self.ms_conditions) /\ h.lists[Val(self.ms_conditions)] # <<>>

\* _clone passing the receiver's own lists to the new Query (a non-empty
\* list is kept by `conditions or []`, an empty one replaced by a new list)
Query_clone_shallow(h, q) ==
    With(IF h.lists[h.queries[q].conditions] = <<>>
         THEN AllocList(h, <<>>)
         ELSE [h |-> h, id |-> h.queries[q].conditions],
         LAMBDA c : Query(c.h, h.queries[q].db_type, c.id,
                          h.queries[q].ms_type, h.queries[q].ms_conditions))

\* Query._clone: the conditions are cloned into a new list, the branches
\* (when there are any) into new lists inside a new list; ordering and cache
\* are those of a newly constructed Query
Query_clone(h, q) ==
    With(CloneConds(h, h.queries[q].conditions),
         LAMBDA c :
           IF MsTruthy(h, h.queries[q])
           THEN With(CloneBranches(c.h,
                                   h.lists[Val(h.queries[q].ms_conditions)], <<>>),
                     LAMBDA b :
                       With(AllocList(b.h, b.ids),
                            LAMBDA l :
                              Query(l.h, h.queries[q].db_type, c.id,
                                    h.queries[q].ms_type, Some(l.id))))
           ELSE Query(c.h, h.queries[q].db_type, c.id,
                      h.queries[q].ms_type, None))

\* the first query of a session: Tyrant.query, i.e. Query(proto, dbtype)
\* with conditions=None, so that self._conditions is a fresh empty list
NewQuery(h, db_type) ==
    With(AllocList(h, <<>>), LAMBDA l : Query(l.h, db_type, l.id, "None", None))

EmptyHeap == [conds |-> <<>>, lists |-> <<>>, queries |-> <<>>, caches |-> <<>>]

\* the Condition objects _filter appends: a clone of each positional
\* Condition with negate xor-ed, then one new Condition per keyword with
\* negate set to the flag
\* every new Condition given the flag of the call, whatever its own
NewConditions_all_flagged(negate, args, kwargs) ==
    [i \in 1..Len(args) |-> [args[i] EXCEPT !.negate = negate]]
    \o [i \in 1..Len(kwargs) |->
            [Condition(kwargs[i][1], kwargs[i][2], FALSE) EXCEPT !.negate = negate]]

NewConditions(negate, args, kwargs) ==
    [i \in 1..Len(args) |-> [args[i] EXCEPT !.negate = (@ # negate)]]
    \o [i \in 1..Len(kwargs) |->
            [Condition(kwargs[i][1], kwargs[i][2], FALSE) EXCEPT !.negate = negate]]

\* query._conditions.append(c) for each new Condition, on the clone r
AppendConditions(r, new) ==
    [h |-> [r.h EXCEPT
              !.conds = @ \o new,
              !.lists[r.h.queries[r.id].conditions] =
                  @ \o [i \in 1..Len(new) |-> Len(r.h.conds) + i]],
     id |-> r.id]

\* Query._filter(negate, args, kwargs): args is a sequence of Condition
\* values, kwargs a sequence of <<keyword, expression>> pairs
Query_filter(h, q, negate, args, kwargs) ==
    With(Query_clone(h, q),
         LAMBDA r : AppendConditions(r, NewConditions(negate, args, kwargs)))

\* the end of _add_to_metasearch: the condition list of the clone o of
\* `other` is appended to the branch list m of the clone r, whose operator
\* is set.  The temporary clone o (and its cache) is unreachable afterwards
\* and is not kept in the query heap.
\* the end of _add_to_metasearch taking the branches of `other` along
Graft_with_branches(r, m, o, operator) ==
    [h |-> [o.h EXCEPT
              !.lists[m.id] =
                 Append(@, o.h.queries[o.id].conditions)
                 \o (IF MsTruthy(o.h, o.h.queries[o.id])
                     THEN o.h.lists[Val(o.h.queries[o.id].ms_conditions)]
                     ELSE <<>>),
              !.queries = [SubSeq(@, 1, r.id) EXCEPT ![r.id] =
                              [@ EXCEPT !.ms_conditions = Some(m.id),
                                        !.ms_type = operator]],
              !.caches = SubSeq(@, 1, Len(r.h.caches))],
     id |-> r.id, status |-> "ok"]

\* the end of _add_to_metasearch with the operator left as it was
Graft_operator_unset(r, m, o, operator) ==
    [h |-> [o.h EXCEPT
              !.lists[m.id] = Append(@, o.h.queries[o.id].conditions),
              !.queries = [SubSeq(@, 1, r.id) EXCEPT ![r.id] =
                              [@ EXCEPT !.ms_conditions = Some(m.id)]],
              !.caches = SubSeq(@, 1, Len(r.h.caches))],
     id |-> r.id, status |-> "ok"]

Graft(r, m, o, operator) ==
    [h |-> [o.h EXCEPT
              !.lists[m.id] = Append(@, o.h.queries[o.id].conditions),
              !.queries = [SubSeq(@, 1, r.id) EXCEPT ![r.id] =
                              [@ EXCEPT !.ms_conditions = Some(m.id),
                                        !.ms_type = operator]],
              !.caches = SubSeq(@, 1, Len(r.h.caches))],
     id |-> r.id, status |-> "ok"]

\* _add_to_metasearch without the assertion on the operator
Query_add_to_metasearch_unchecked(h, q, other, operator) ==
    With(Query_clone(h, q),
         LAMBDA r :
           With(IF IsNone(r.h.queries[r.id].ms_conditions)
                THEN AllocList(r.h, <<>>)
                ELSE [h |-> r.h, id |-> Val(r.h.queries[r.id].ms_conditions)],
                LAMBDA m :
                  With(Query_clone(m.h, other),
                       LAMBDA o : Graft(r, m, o, operator))))

\* Query._add_to_metasearch(other, operator).  status is "ok" or the
\* exception raised; on an exception no query is returned and the heap the
\* caller can reach is as before.
Query_add_to_metasearch(h, q, other, operator) ==
    With(Query_clone(h, q),
         LAMBDA r :
           IF r.h.queries[r.id].ms_type \notin {"None", operator}
           THEN [h |-> h, id |-> 0, status |-> "AssertionError"]
           ELSE With(IF IsNone(r.h.queries[r.id].ms_conditions)
                     THEN AllocList(r.h, <<>>)
                     ELSE [h |-> r.h, id |-> Val(r.h.queries[r.id].ms_conditions)],
                     LAMBDA m :
                       With(Query_clone(m.h, other),
                            LAMBDA o : Graft(r, m, o, operator))))

\* the end of order_by: the clone r gets the new ordering, and the cache of
\* the receiver when the receiver's ordering equals the new one
Reordered(h, q, r, ordering) ==
    [h |-> [r.h EXCEPT
              !.queries[r.id] =
                 [@ EXCEPT !.ordering = ordering,
                           !.cache = IF Ordering__eq__(h.queries[q].ordering, ordering)
                                     THEN h.queries[q].cache ELSE @]],
     id |-> r.id]

\* Query.order_by(name, numeric).  name is given as [minus, rest]:
\* name.startswith('-') and the text after the sign.
Query_order_by(h, q, name, numeric) ==
    With(Query_clone(h, q),
         LAMBDA r : Reordered(h, q, r,
                              Ordering(Some(name.rest),
                                       Some(IF name.minus THEN DESC ELSE ASC),
                                       numeric)))

(***************************************************************************)
(* Query._do_search and the protocol's search                              *)
(***************************************************************************)
PrepareAll(cs) == [i \in 1..Len(cs) |-> prepare(cs[i])]

\* the exception the first failing prepare() of a list raises, or "ok"
FirstError(ps) ==
    IF \E i \in 1..Len(ps) : ps[i].status # "ok"
    THEN ps[CHOOSE i \in 1..Len(ps) :
                /\ ps[i].status # "ok"
                /\ \A j \in 1..(i - 1) : ps[j].status = "ok"].status
    ELSE "ok"

\* the prepared branches, when self._ms_conditions is truthy
PrepareBranches(h, self) ==
    IF MsTruthy(h, self)
    THEN [i \in 1..Len(DerefBranches(h, self)) |->
             PrepareAll(DerefBranches(h, self)[i])]
    ELSE <<>>

\* the branches left unprepared until the server has answered
SearchStatus_main_only(main, ms) == FirstError(main)

\* the conditions are prepared first, then the branches in order: the first
\* exception raised, or "ok"
SearchStatus(main, ms) ==
    IF FirstError(main) # "ok"
    THEN FirstError(main)
    ELSE FirstError([i \in 1..Len(ms) |-> [status |-> FirstError(ms[i])]])

\* the keyword arguments of self._proto.search(**defaults)
SearchRequest(h, self, main, ms, out, count, hint, columns) ==
    [type |-> "search", out |-> out, count |-> count, hint |-> hint,
     conditions |-> main, limit |-> None, offset |-> None,
     columns |-> columns,
     order_column |-> IF Ordering__nonzero__(self.ordering)
                      THEN self.ordering.name ELSE None,
     order_type |-> IF Ordering__nonzero__(self.ordering)
                    THEN Some(Ordering_type(self.ordering)) ELSE None,
     ms_type |-> IF MsTruthy(h, self) THEN self.ms_type ELSE "None",
     ms_conditions |-> ms]

Prepared(h, self, main, ms, out, count, hint, columns) ==
    [status |-> SearchStatus(main, ms),
     request |-> SearchRequest(h, self, main, ms, out, count, hint, columns)]

\* Query._do_search up to the call of self._proto.search: the request it
\* would send, or the exception raised while building it.  columns is the
\* tuple of names given (empty when none).
Query_do_search(h, q, out, count, hint, columns) ==
    Prepared(h, h.queries[q],
             PrepareAll(Deref(h, h.queries[q].conditions)),
             PrepareBranches(h, h.queries[q]),
             out, count, hint, columns)

\* what protocol.search answers to a request: the matching keys; with the
\* count flag one element, the number of matches; with the hint flag the keys
\* and a trailing hint string; with the out flag nothing; with columns the
\* raw values of the matches
SearchReplies(request) ==
    IF request.out THEN {<<>>}
    ELSE IF request.count THEN {<<ToString(n)>> : n \in 0..MaxKeys}
    ELSE IF request.hint THEN {Append(l, "hint") : l \in KeyLists}
    ELSE IF request.columns # <<>>
    THEN {[i \in 1..Len(l) |-> RawValue(l[i])] : l \in KeyLists}
    ELSE KeyLists

\* int(s) of a decimal count
PyIntOf(s) == CHOOSE n \in 0..(MaxKeys + 1) : ToString(n) = s

\* the ResultCache of query q
CacheOf(h, q) == h.caches[h.queries[q].cache]

\* get_keys testing `if not self.keys`: an empty key list counts as absent
get_keys_refetch_when_empty(h, q, reply) ==
    IF IsNone(CacheOf(h, q).keys) \/ Val(CacheOf(h, q).keys) = <<>>
    THEN With(Query_do_search(h, q, FALSE, FALSE, FALSE, <<>>),
              LAMBDA s :
                IF s.status # "ok"
                THEN [status |-> s.status, cache |-> CacheOf(h, q), sent |-> <<>>]
                ELSE [status |-> "ok",
                      cache |-> [CacheOf(h, q) EXCEPT !.keys = Some(reply)],
                      sent |-> <<s.request>>])
    ELSE [status |-> "ok", cache |-> CacheOf(h, q), sent |-> <<>>]

\* ResultCache.get_keys(self._do_search): `reply` is what the search answers
\* if it is sent
get_keys(h, q, reply) ==
    IF IsNone(CacheOf(h, q).keys)
    THEN With(Query_do_search(h, q, FALSE, FALSE, FALSE, <<>>),
              LAMBDA s :
                IF s.status # "ok"
                THEN [status |-> s.status, cache |-> CacheOf(h, q), sent |-> <<>>]
                ELSE [status |-> "ok",
                      cache |-> [CacheOf(h, q) EXCEPT !.keys = Some(reply)],
                      sent |-> <<s.request>>])
    ELSE [status |-> "ok", cache |-> CacheOf(h, q), sent |-> <<>>]

\* Query._get_item(index)
Query_get_item(h, q, index, reply) ==
    IF index < 0
    THEN [status |-> "ValueError", cache |-> CacheOf(h, q),
          sent |-> <<>>, fetched |-> <<>>, value |-> None]
    ELSE With(get_keys(h, q, reply),
              LAMBDA k :
                IF k.status # "ok"
                THEN [status |-> k.status, cache |-> k.cache, sent |-> k.sent,
                      fetched |-> <<>>, value |-> None]
                ELSE With(get_item(k.cache, index, h.queries[q].db_type),
                          LAMBDA r :
                            [status |-> r.status, cache |-> r.cache,
                             sent |-> k.sent, fetched |-> r.fetched,
                             value |-> r.item]))

\* Query._get_slice(slice(start, stop)); start and stop are options
Query_get_slice(h, q, start, stop, reply) ==
    IF (~IsNone(start) /\ Val(start) < 0) \/ (~IsNone(stop) /\ Val(stop) < 0)
    THEN [status |-> "ValueError", cache |-> CacheOf(h, q), sent |-> <<>>,
          fetched |-> <<>>, value |-> <<>>]
    ELSE IF Truthy(start) /\ start = stop
    THEN [status |-> "ValueError", cache |-> CacheOf(h, q), sent |-> <<>>,
          fetched |-> <<>>, value |-> <<>>]
    ELSE With(get_keys(h, q, reply),
              LAMBDA k :
                IF k.status # "ok"
                THEN [status |-> k.status, cache |-> k.cache, sent |-> k.sent,
                      fetched |-> <<>>, value |-> <<>>]
                ELSE With(get_items(k.cache,
                                    IF Truthy(start) THEN Val(start) ELSE 0,
                                    stop, h.queries[q].db_type),
                          LAMBDA r :
                            [status |-> r.status, cache |-> r.cache,
                             sent |-> k.sent, fetched |-> r.fetched,
                             value |-> r.items]))

\* Query.set_chunk_size(size): the query gets a new, empty ResultCache
\* set_chunk_size changing the chunk size of the cache in place
Query_set_chunk_size_in_place(h, q, size) ==
    [h EXCEPT !.caches[h.queries[q].cache].chunk_size =
                 ResultCache(size).chunk_size]

Query_set_chunk_size(h, q, size) ==
    [h EXCEPT !.caches = Append(@, ResultCache(size)),
              !.queries[q].cache = Len(h.caches) + 1]

(***************************************************************************)
(* Bookkeeping of the requests sent.                                       *)
(***************************************************************************)
\* the multi-get counters after the fetches of one operation
Bump(f, fetched) ==
    LET ns == {fetched[i].chunk : i \in 1..Len(fetched)}
    IN [n \in (DOMAIN f) \cup ns |->
           (IF n \in DOMAIN f THEN f[n] ELSE 0)
           + Cardinality({i \in 1..Len(fetched) : fetched[i].chunk = n})]

MgetRequests(fetched) ==
    [i \in 1..Len(fetched) |->
        [type |-> "mget", chunk |-> fetched[i].chunk, keys |-> fetched[i].keys]]

\* counters for the caches of heap h, keeping those already counted
PadSearch(h) ==
    [i \in 1..Len(h.caches) |-> IF i <= Len(nsearch) THEN nsearch[i] ELSE 0]
PadFetch(h) ==
    [i \in 1..Len(h.caches) |-> IF i <= Len(nfetch) THEN nfetch[i] ELSE <<>>]

\* the state after an access through the ResultCache of query q with result
\* r; the reply to the key-list search, when one was sent, is the key list
\* the cache then holds
Accessed(q, r, op, args) ==
    LET cid == queries[q].cache
    IN /\ caches' = [caches EXCEPT ![cid] = r.cache]
       /\ nsearch' = [nsearch EXCEPT ![cid] = @ + Len(r.sent)]
       /\ nfetch' = [nfetch EXCEPT ![cid] = Bump(@, r.fetched)]
       /\ sent' = r.sent \o MgetRequests(r.fetched)
       /\ ret' = [op |-> op, q |-> q, args |-> args,
                  status |-> r.status, value |-> r.value,
                  replies |-> [i \in 1..Len(r.sent) |-> Val(r.cache.keys)]]
       /\ UNCHANGED <<conds, lists, queries, tyrant, callers>>

\* the state after an operation that goes to the protocol directly, having
\* sent `requests` and received `replies`
Answered(q, requests, replies, op, args, status, value) ==
    /\ sent' = requests
    /\ ret' = [op |-> op, q |-> q, args |-> args, status |-> status,
               value |-> value, replies |-> replies]
    /\ UNCHANGED <<conds, lists, queries, caches, nsearch, nfetch, tyrant,
                 callers>>

(***************************************************************************)
(* Evaluation entry points                                                 *)
(***************************************************************************)
\* the answers the key-list search of query q can get; when the key list is
\* already realized no search is sent and there is nothing to choose
KeyReplies(q) ==
    IF IsNone(caches[queries[q].cache].keys) THEN KeyLists ELSE {<<>>}

\* query[index]
GetItem(q, index) ==
    \E reply \in KeyReplies(q) :
        \E r \in {Query_get_item(Heap, q, index, reply)} :
            Accessed(q, r, "getitem", <<index>>)

\* query[start:stop]
GetSlice(q, start, stop) ==
    \E reply \in KeyReplies(q) :
        \E r \in {Query_get_slice(Heap, q, start, stop, reply)} :
            Accessed(q, r, "getslice", <<start, stop>>)

\* len(query): len(self[:])
QueryLen(q) ==
    \E reply \in KeyReplies(q) :
        \E r \in {Query_get_slice(Heap, q, None, None, reply)} :
            Accessed(q, [r EXCEPT !.value = Len(@)], "len", <<>>)

\* key in query
Contains(q, key) ==
    \E reply \in KeyReplies(q) :
        \E k \in {get_keys(Heap, q, reply)} :
            Accessed(q, [status |-> k.status, cache |-> k.cache, sent |-> k.sent,
                         fetched |-> <<>>,
                         value |-> k.status = "ok" /\
                                   \E i \in 1..Len(Val(k.cache.keys)) :
                                       Val(k.cache.keys)[i] = key],
                     "contains", <<key>>)

\* count() computed as the length of the cached full slice
Count_from_cache(q) ==
    \E reply \in KeyReplies(q) :
        \E r \in {Query_get_slice(Heap, q, None, None, reply)} :
            Accessed(q, [r EXCEPT !.value = Len(@)], "count", <<>>)

\* query.count()
Count(q) ==
    \E s \in {Query_do_search(Heap, q, FALSE, TRUE, FALSE, <<>>)} :
        IF s.status # "ok"
        THEN Answered(q, <<>>, <<>>, "count", <<>>, s.status, None)
        ELSE \E reply \in SearchReplies(s.request) :
                Answered(q, <<s.request>>, <<reply>>, "count", <<>>, "ok",
                         PyIntOf(reply[1]))

\* query.hint()
Hint(q) ==
    \E s \in {Query_do_search(Heap, q, FALSE, FALSE, TRUE, <<>>)} :
        IF s.status # "ok"
        THEN Answered(q, <<>>, <<>>, "hint", <<>>, s.status, None)
        ELSE \E reply \in SearchReplies(s.request) :
                Answered(q, <<s.request>>, <<reply>>, "hint", <<>>, "ok",
                         reply[Len(reply)])

\* [self._to_python(value) for value in values]: the decoded values, or
\* the IndexError to_python raises on one of them
Decoded(q, request, reply, names, elems, dbtype) ==
    IF \E i \in 1..Len(elems) : to_python_raises(elems[i], dbtype)
    THEN Answered(q, <<request>>, <<reply>>, "columns", <<names>>,
                  "IndexError", <<>>)
    ELSE Answered(q, <<request>>, <<reply>>, "columns", <<names>>, "ok",
                  [i \in 1..Len(elems) |-> to_python(elems[i], dbtype)])

\* query.columns(*names).  Without names the search carries no columns and
\* answers keys, each a one-token element for to_python.
Columns(q, names) ==
    IF \E i \in 1..Len(names) : names[i] = "*"
    THEN \E reply \in KeyReplies(q) :
            \E r \in {Query_get_slice(Heap, q, None, None, reply)} :
                Accessed(q, r, "columns", <<names>>)
    ELSE \E s \in {Query_do_search(Heap, q, FALSE, FALSE, FALSE, names)} :
            IF s.status # "ok"
            THEN Answered(q, <<>>, <<>>, "columns", <<names>>, s.status, <<>>)
            ELSE \E reply \in SearchReplies(s.request) :
                    Decoded(q, s.request, reply, names,
                            [i \in 1..Len(reply) |->
                                IF names = <<>> THEN <<reply[i]>> ELSE reply[i]],
                            queries[q].db_type)

\* delete() forgetting the keys and chunks of the query's cache
Delete_cache_dropped(q, quick) ==
    \E s \in {Query_do_search(Heap, q, TRUE, FALSE, FALSE, <<>>)} :
        /\ sent' = IF s.status = "ok" THEN <<s.request>> ELSE <<>>
        /\ ret' = [op |-> "delete", q |-> q, args |-> <<quick>>,
                   status |-> s.status, value |-> None, replies |-> <<>>]
        /\ caches' = [caches EXCEPT ![queries[q].cache] =
                         [@ EXCEPT !.keys = None, !.chunks = <<>>]]
        /\ UNCHANGED <<conds, lists, queries, nsearch, nfetch, tyrant, callers>>

\* query.delete(quick).  The value is the option returned: None, or a boolean.
Delete(q, quick) ==
    \E s \in {Query_do_search(Heap, q, TRUE, FALSE, FALSE, <<>>)} :
        IF s.status # "ok"
        THEN Answered(q, <<>>, <<>>, "delete", <<quick>>, s.status, None)
        ELSE IF quick
        THEN \E v \in {Query_do_search(Heap, q, FALSE, TRUE, FALSE, <<>>)} :
                \E reply \in SearchReplies(v.request) :
                    \* not bool(<the reply list>)
                    Answered(q, <<s.request, v.request>>, << <<>>, reply >>,
                             "delete", <<quick>>, "ok", Some(~(Len(reply) > 0)))
        ELSE Answered(q, <<s.request>>, << <<>> >>, "delete", <<quick>>,
                      "ok", None)

(***************************************************************************)
(* Specification of evaluation: one query, built by the combinators from   *)
(* a sample of condition lists, is accessed in every way.                  *)
(***************************************************************************)
ValidKw == << <<"price", "gt">>, PyInt(1) >>
UnknownLookupKw == << <<"name", "foo">>, PyStr("Foo") >>
BadArityKw == << <<"price", "between">>, PyList(<<PyInt(1)>>) >>
BadShapeKw == << <<"price", "gt">>, PyStr("Foo") >>

\* [main: kwargs of filter, branch: option of the kwargs of the other query]
SampleQueries ==
    { [main |-> <<>>, branch |-> None],
      [main |-> <<ValidKw>>, branch |-> Some(<<ValidKw>>)],
      [main |-> <<UnknownLookupKw>>, branch |-> None],
      [main |-> <<ValidKw, BadArityKw>>, branch |-> None],
      [main |-> <<BadShapeKw>>, branch |-> None],
      [main |-> <<ValidKw>>, branch |-> Some(<<ValidKw, UnknownLookupKw>>)] }

ChunkSizeArgs == {None} \cup {Some(n) : n \in 1..MaxChunk}

\* the other query of a union: t.query.filter(**branch), then the union
WithBranch(h1, base, branch) ==
    With(Query_filter(h1.h, base, FALSE, <<>>, branch),
         LAMBDA o : Query_add_to_metasearch(o.h, h1.id, o.id, "TDBMSUNION"))

\* t.query.filter(**main) [.union(t.query.filter(**branch))], then
\* set_chunk_size(size) on the result
BuildSample(cfg, size) ==
    With(NewQuery(EmptyHeap, DB_TABLE),
         LAMBDA h0 :
           With(Query_filter(h0.h, h0.id, FALSE, <<>>, cfg.main),
                LAMBDA h1 :
                  With(IF IsNone(cfg.branch) THEN h1
                       ELSE WithBranch(h1, h0.id, Val(cfg.branch)),
                       LAMBDA h2 :
                         Query_set_chunk_size(h2.h, Len(h2.h.queries), size))))

InitRet ==
    [op |-> "init", q |-> 0, args |-> <<>>, status |-> "ok", value |-> None,
     replies |-> <<>>]

\* no Tyrant object is in use: the queries are given their protocol directly
NoTyrant == <<>>

\* no caller is at work inside a ResultCache: every operation runs from its
\* call to its return before the next one starts
NoCallers == <<>>

\* the state in which heap h has just been built and nothing has been sent
InitFrom(h) ==
    /\ conds = h.conds
    /\ lists = h.lists
    /\ queries = h.queries
    /\ caches = h.caches
    /\ nsearch = [i \in 1..Len(h.caches) |-> 0]
    /\ nfetch = [i \in 1..Len(h.caches) |-> <<>>]
    /\ sent = <<>>
    /\ ret = InitRet
    /\ tyrant = NoTyrant
    /\ callers = NoCallers

Init ==
    \E cfg \in SampleQueries, size \in ChunkSizeArgs :
        InitFrom(BuildSample(cfg, size))

\* the query under evaluation: the one built last
Subject == Len(queries)

Indices == (-1)..(MaxKeys + 1)
Starts == {None} \cup {Some(i) : i \in (-1)..MaxKeys}
Stops == {None} \cup {Some(i) : i \in (-1)..(MaxKeys + 1)}
ColumnArgs == {<<>>, <<"*">>, <<"name">>, <<"name", "*">>}

Next ==
    \/ \E i \in Indices : GetItem(Subject, i)
    \/ \E a \in Starts, b \in Stops : GetSlice(Subject, a, b)
    \/ QueryLen(Subject)
    \/ \E k \in Keys : Contains(Subject, k)
    \/ Count(Subject)
    \/ Hint(Subject)
    \/ \E names \in ColumnArgs : Columns(Subject, names)
    \/ \E quick \in BOOLEAN : Delete(Subject, quick)

Spec == Init /\ [][Next]_vars

(***************************************************************************)
(* Specification of building: queries are derived from one another by the  *)
(* combinators, and evaluated in between so that receivers hold caches.    *)
(***************************************************************************)
\* the state after a combinator called on q returned: r is [h, id], the
\* heap afterwards and the Query returned (0 when an exception was raised)
Built(r, op, q, args, status) ==
    /\ conds' = r.h.conds
    /\ lists' = r.h.lists
    /\ queries' = r.h.queries
    /\ caches' = r.h.caches
    /\ nsearch' = PadSearch(r.h)
    /\ nfetch' = PadFetch(r.h)
    /\ sent' = <<>>
    /\ ret' = [op |-> op, q |-> q, args |-> args, status |-> status,
               value |-> r.id, replies |-> <<>>]
    /\ UNCHANGED <<tyrant, callers>>

\* query.filter(*args, **kwargs)
Filter(q, args, kwargs) ==
    /\ Len(queries) < MaxQueries
    /\ \E r \in {Query_filter(Heap, q, FALSE, args, kwargs)} :
           Built(r, "filter", q, <<args, kwargs>>, "ok")

\* query.exclude(*args, **kwargs)
Exclude(q, args, kwargs) ==
    /\ Len(queries) < MaxQueries
    /\ \E r \in {Query_filter(Heap, q, TRUE, args, kwargs)} :
           Built(r, "exclude", q, <<args, kwargs>>, "ok")

\* query.order_by(name, numeric)
OrderBy(q, name, numeric) ==
    /\ Len(queries) < MaxQueries
    /\ \E r \in {Query_order_by(Heap, q, name, numeric)} :
           Built(r, "order_by", q, <<name, numeric>>, "ok")

\* query.union(other)
Union(q, other) ==
    /\ Len(queries) < MaxQueries
    /\ \E r \in {Query_add_to_metasearch(Heap, q, other, "TDBMSUNION")} :
           Built(r, "union", q, <<other, "TDBMSUNION">>, r.status)

\* query.intersect(other)
Intersect(q, other) ==
    /\ Len(queries) < MaxQueries
    /\ \E r \in {Query_add_to_metasearch(Heap, q, other, "TDBMSISECT")} :
           Built(r, "intersect", q, <<other, "TDBMSISECT">>, r.status)

\* query.minus(other)
Minus(q, other) ==
    /\ Len(queries) < MaxQueries
    /\ \E r \in {Query_add_to_metasearch(Heap, q, other, "TDBMSDIFF")} :
           Built(r, "minus", q, <<other, "TDBMSDIFF">>, r.status)

\* the table's keys in order: what a search without conditions answers
AllKeys == [i \in 1..MaxKeys |-> KeyNames[i]]

\* query[:] on a query not evaluated yet, the search answering every key
Realize(q) ==
    /\ IsNone(caches[queries[q].cache].keys)
    /\ \E r \in {Query_get_slice(Heap, q, None, None, AllKeys)} :
           Accessed(q, r, "getslice", <<None, None>>)

\* the arguments given to filter and exclude: one keyword, or one
\* positional Condition that is itself negated
BuilderArgs ==
    { [args |-> <<>>, kwargs |-> <<ValidKw>>],
      [args |-> <<Condition(<<"name">>, PyStr("Foo"), TRUE)>>, kwargs |-> <<>>],
      [args |-> <<Condition(<<"name">>, PyStr("Foo"), FALSE)>>,
       kwargs |-> <<ValidKw>>] }

OrderNames == {[minus |-> m, rest |-> "name"] : m \in BOOLEAN}

\* the arguments given to order_by: a column ascending and descending,
\* as text and as numbers, and another column
OrderArgs ==
    {[name |-> n, numeric |-> m] : n \in OrderNames, m \in BOOLEAN}
    \cup {[name |-> [minus |-> FALSE, rest |-> "price"], numeric |-> FALSE]}

InitBuilder == InitFrom(NewQuery(EmptyHeap, DB_TABLE).h)

Existing == 1..Len(queries)

NextBuilder ==
    \/ \E q \in Existing, a \in BuilderArgs : Filter(q, a.args, a.kwargs)
    \/ \E q \in Existing, a \in BuilderArgs : Exclude(q, a.args, a.kwargs)
    \/ \E q \in Existing, a \in OrderArgs : OrderBy(q, a.name, a.numeric)
    \/ \E q \in Existing, o \in Existing : Union(q, o)
    \/ \E q \in Existing, o \in Existing : Intersect(q, o)
    \/ \E q \in Existing, o \in Existing : Minus(q, o)
    \/ \E q \in Existing : Realize(q)

SpecBuilder == InitBuilder /\ [][NextBuilder]_vars

(***************************************************************************)
(* Properties of evaluation (specification Spec)                           *)
(***************************************************************************)
\* the ResultCache of the query under evaluation and its realized key list
SubjectCache == caches[queries[Subject].cache]
SubjectKeys == Val(SubjectCache.keys)

\* the i-th element (from 0) of the fully materialized sequence: the key
\* and the decoded record the table holds for it
Materialized(i) ==
    <<SubjectKeys[i + 1], to_python(RawValue(SubjectKeys[i + 1]), DB_TABLE)>>

\* every condition of the query and of its branches passes prepare()
Prepares(q) ==
    /\ \A i \in 1..Len(Deref(Heap, queries[q].conditions)) :
           prepare(Deref(Heap, queries[q].conditions)[i]).status = "ok"
    /\ \A b \in 1..Len(DerefBranches(Heap, queries[q])) :
           \A i \in 1..Len(DerefBranches(Heap, queries[q])[b]) :
               prepare(DerefBranches(Heap, queries[q])[b][i]).status = "ok"

Min(a, b) == IF a < b THEN a ELSE b

\* C1: with the key list realized, query[i] for every i in [0, N) succeeds
\* and returns the i-th (key, value) pair of the materialized sequence,
\* whatever the chunk size and whatever was accessed before.
C1_GetItemReturnsIthPair ==
    ( /\ ret.op = "getitem"
      /\ ~IsNone(SubjectCache.keys)
      /\ ret.args[1] \in 0..(Len(SubjectKeys) - 1) )
    => /\ ret.status = "ok"
       /\ ret.value = Some(Materialized(ret.args[1]))

\* an item of the second chunk is returned after the first chunk was cached
C1_Witness ==
    /\ ret.op = "getitem"
    /\ ret.status = "ok"
    /\ ret.args[1] = 2
    /\ SubjectCache.chunk_size = 2
    /\ DOMAIN SubjectCache.chunks = {0, 1}
    /\ Len(SubjectKeys) = 3

\* the bounds of the slice of the last getslice: start (none meaning 0) and
\* the end min(stop, N) (none meaning N)
SliceStart == IF IsNone(ret.args[1]) THEN 0 ELSE Val(ret.args[1])
SliceEnd ==
    IF IsNone(ret.args[2]) THEN Len(SubjectKeys)
    ELSE Min(Val(ret.args[2]), Len(SubjectKeys))

\* C2: query[start:stop] with start >= 0 (or none) and stop none or an
\* integer > start returns exactly the items at the absolute indices
\* start .. min(stop, N) - 1, in key-list order.
C2_SliceReturnsRange ==
    ( /\ ret.op = "getslice"
      /\ ~IsNone(SubjectCache.keys)
      /\ SliceStart >= 0
      /\ (IsNone(ret.args[2]) \/ Val(ret.args[2]) > SliceStart) )
    => /\ ret.status = "ok"
       /\ ret.value = [i \in 1..(SliceEnd - SliceStart) |->
                          Materialized(SliceStart + i - 1)]

\* a bounded slice that starts inside one chunk and ends inside the next
C2_Witness ==
    /\ ret.op = "getslice"
    /\ ret.status = "ok"
    /\ ret.args = <<Some(1), Some(3)>>
    /\ SubjectCache.chunk_size = 2
    /\ Len(SubjectKeys) = 3
    /\ Len(ret.value) = 2

\* C3: on a query whose conditions are valid, a negative index, a slice
\* with a negative start or stop, and a slice with start = stop are each
\* rejected with ValueError.
C3_RejectedWithValueError ==
    Prepares(Subject) =>
       /\ (ret.op = "getitem" /\ ret.args[1] < 0) => ret.status = "ValueError"
       /\ ( /\ ret.op = "getslice"
            /\ \E i \in 1..2 : ~IsNone(ret.args[i]) /\ Val(ret.args[i]) < 0 )
          => ret.status = "ValueError"
       /\ ( /\ ret.op = "getslice"
            /\ ~IsNone(ret.args[1])
            /\ ret.args[1] = ret.args[2] )
          => ret.status = "ValueError"

\* query[0:0] answered with the whole result list
C3_ZeroSliceReturnsAll ==
    /\ ret.op = "getslice"
    /\ ret.args = <<Some(0), Some(0)>>
    /\ ret.status = "ok"
    /\ Len(SubjectKeys) = 3
    /\ ret.value = [i \in 1..3 |-> Materialized(i - 1)]

\* C4: at most one key-list search is sent for a ResultCache, and once its
\* key list is realized (empty or not) no access changes it.
C4_KeysRealizedOnce ==
    [][\A c \in 1..Len(caches) :
          /\ nsearch'[c] <= 1
          /\ ~IsNone(caches[c].keys) => caches'[c].keys = caches[c].keys]_vars

\* an access answered from a realized, empty key list without a search
C4_Witness ==
    /\ ret.op = "contains"
    /\ ret.status = "ok"
    /\ sent = <<>>
    /\ SubjectCache.keys = Some(<<>>)
    /\ nsearch[queries[Subject].cache] = 1

\* C5: the multi-get for a chunk number is sent at most once for a
\* ResultCache, and a stored chunk keeps its contents.
C5_ChunkFetchedOnce ==
    [][\A c \in 1..Len(caches) :
          /\ \A n \in DOMAIN nfetch'[c] : nfetch'[c][n] <= 1
          /\ \A n \in DOMAIN caches[c].chunks :
                /\ n \in DOMAIN caches'[c].chunks
                /\ caches'[c].chunks[n] = caches[c].chunks[n]]_vars

\* a slice over two stored chunks answered without any request
C5_Witness ==
    /\ ret.op = "getslice"
    /\ ret.status = "ok"
    /\ Len(ret.value) = 3
    /\ sent = <<>>
    /\ SubjectCache.chunk_size = 2
    /\ \A n \in {0, 1} : n \in DOMAIN nfetch[queries[Subject].cache]
                          /\ nfetch[queries[Subject].cache][n] = 1

\* C8: delete(quick=False) on a valid query sends two searches, the delete
\* (out) search and then one count search, and returns a boolean that is
\* true iff the count answered is zero.
C8_NonQuickDeleteVerifies ==
    (ret.op = "delete" /\ ret.args[1] = FALSE /\ ret.status = "ok")
    => /\ Len(sent) = 2
       /\ sent[1].out /\ ~sent[1].count
       /\ sent[2].count /\ ~sent[2].out
       /\ ret.value \in {Some(TRUE), Some(FALSE)}
       /\ (ret.value = Some(TRUE)) <=> (PyIntOf(ret.replies[2][1]) = 0)

\* delete(quick=False) having sent the delete search only and returned None
C8_NonQuickDeleteUnverified ==
    /\ ret.op = "delete"
    /\ ret.args[1] = FALSE
    /\ ret.status = "ok"
    /\ Len(sent) = 1
    /\ sent[1].out
    /\ ret.value = None

\* C9: delete(quick=True) on a valid query sends exactly one search, the
\* delete (out) search, and returns None.
C9_QuickDeleteReturnsNone ==
    (ret.op = "delete" /\ ret.args[1] = TRUE /\ ret.status = "ok")
    => /\ Len(sent) = 1
       /\ sent[1].out
       /\ ret.value = None

\* delete(quick=True) having sent the delete search and a count search and
\* returned a boolean
C9_QuickDeleteVerified ==
    /\ ret.op = "delete"
    /\ ret.args[1] = TRUE
    /\ ret.status = "ok"
    /\ Len(sent) = 2
    /\ sent[1].out
    /\ sent[2].count
    /\ ret.value = Some(FALSE)

EvaluationOps ==
    {"getitem", "getslice", "len", "contains", "count", "columns", "hint",
     "delete"}

\* C10: when a condition of the query or of one of its branches fails
\* prepare(), every evaluation entry point raises with no search and no
\* multi-get sent and with the ResultCache unpopulated.
C10_ValidationBeforeRoundTrip ==
    (ret.op \in EvaluationOps /\ ~Prepares(Subject))
    => /\ ret.status \in {"NameError", "ValueError"}
       /\ sent = <<>>
       /\ \A c \in 1..Len(caches) :
             /\ nsearch[c] = 0
             /\ DOMAIN nfetch[c] = {}
             /\ IsNone(caches[c].keys)
             /\ DOMAIN caches[c].chunks = {}

\* a delete refused because a condition of a branch has an unknown lookup
C10_Witness ==
    /\ ret.op = "delete"
    /\ ret.status = "NameError"
    /\ MsTruthy(Heap, queries[Subject])
    /\ \A i \in 1..Len(Deref(Heap, queries[Subject].conditions)) :
           prepare(Deref(Heap, queries[Subject].conditions)[i]).status = "ok"

\* ceil(n / s) for n >= 0, s > 0
Ceil(n, s) == (n + s - 1) \div s

\* the multi-gets that fetch a key list chunk by chunk, in increasing
\* order of chunk number: chunk n asks for keys[n*S .. min((n+1)*S, N) - 1]
ChunkwiseFetches(keys, size) ==
    [n \in 1..Ceil(Len(keys), size) |->
        [type |-> "mget", chunk |-> n - 1,
         keys |-> SubSeq(keys, (n - 1) * size + 1, Min(n * size, Len(keys)))]]

IsMget(request) == request.type = "mget"

\* C14: an unbounded slice from index 0 on a ResultCache that holds no
\* chunk sends exactly ceil(N/S) multi-gets, for chunks 0 .. ceil(N/S)-1 in
\* increasing order, each asking for that chunk's (at most S) keys, and
\* none for a chunk past the end of the key list.
C14_UnboundedSliceFetches ==
    [][( /\ ret'.op = "getslice"
         /\ ret'.status = "ok"
         /\ ret'.args[1] \in {None, Some(0)}
         /\ ret'.args[2] = None
         /\ DOMAIN SubjectCache.chunks = {} )
       => SelectSeq(sent', IsMget) =
             ChunkwiseFetches(SubjectKeys', SubjectCache.chunk_size)]_vars

\* query[:] over three keys with chunk size 2: the search and two multi-gets
C14_Witness ==
    /\ ret.op = "getslice"
    /\ ret.status = "ok"
    /\ ret.args = <<None, None>>
    /\ SubjectCache.chunk_size = 2
    /\ Len(SubjectKeys) = 3
    /\ Len(sent) = 3
    /\ sent[1].type = "search"
    /\ sent[2].chunk = 0 /\ Len(sent[2].keys) = 2
    /\ sent[3].chunk = 1 /\ Len(sent[3].keys) = 1

\* index i lies within the boundaries of chunk n of cache c
Within(c, n, i) ==
    get_chunk_boundaries(c, n)[1] <= i /\ i <= get_chunk_boundaries(c, n)[2]

\* C15: for the chunk size S of every ResultCache and every index i >= 0,
\* get_chunk_number(i) is floor(i/S) (the n with n*S <= i < (n+1)*S),
\* get_chunk_boundaries(n) is (n*S, n*S + S - 1), and i lies within the
\* boundaries of chunk n iff n = get_chunk_number(i); the multi-get an
\* index access sends is for that chunk.
C15_ChunksPartitionIndices ==
    /\ \A c \in 1..Len(caches) : \A i \in 0..(MaxKeys + 1) :
          /\ get_chunk_number(caches[c], i) * caches[c].chunk_size <= i
          /\ i < (get_chunk_number(caches[c], i) + 1) * caches[c].chunk_size
          /\ \A n \in 0..(MaxKeys + 1) :
                /\ get_chunk_boundaries(caches[c], n) =
                      <<n * caches[c].chunk_size,
                        n * caches[c].chunk_size + caches[c].chunk_size - 1>>
                /\ Within(caches[c], n, i) <=> n = get_chunk_number(caches[c], i)
    /\ (ret.op = "getitem" /\ ret.status = "ok") =>
          \A k \in 1..Len(sent) :
              sent[k].type = "mget" =>
                 /\ Within(SubjectCache, sent[k].chunk, ret.args[1])
                 /\ sent[k].chunk = get_chunk_number(SubjectCache, ret.args[1])

\* query[2] with chunk size 2 fetching chunk 1
C15_Witness ==
    /\ ret.op = "getitem"
    /\ ret.status = "ok"
    /\ ret.args[1] = 2
    /\ SubjectCache.chunk_size = 2
    /\ \E k \in 1..Len(sent) : sent[k].type = "mget" /\ sent[k].chunk = 1

\* the names hold a name other than the wildcard / hold the wildcard
SomeNamed(names) == \E i \in 1..Len(names) : names[i] # "*"
SomeWildcard(names) == \E i \in 1..Len(names) : names[i] = "*"

\* the call that just returned sent one search with these flags and columns
OneSearch(count, hint, columns) ==
    /\ Len(sent') = 1
    /\ sent'[1].type = "search"
    /\ sent'[1].count = count /\ sent'[1].hint = hint /\ ~sent'[1].out
    /\ sent'[1].columns = columns

\* C17 as stated: every count(), hint() and columns(names) with at least
\* one non-wildcard name sends exactly one search (count flag, hint flag,
\* requested columns) and leaves every ResultCache unchanged.
C17_EveryCallSearchesOnce ==
    [][/\ ret'.op = "count" => OneSearch(TRUE, FALSE, <<>>) /\ caches' = caches
       /\ ret'.op = "hint" => OneSearch(FALSE, TRUE, <<>>) /\ caches' = caches
       /\ (ret'.op = "columns" /\ SomeNamed(ret'.args[1])) =>
             OneSearch(FALSE, FALSE, ret'.args[1]) /\ caches' = caches]_vars

\* C17: on a query whose conditions compile, every count(), hint() and
\* columns(names) with at least one name and no wildcard among the names
\* sends exactly one search (count flag, hint flag, requested columns),
\* whatever the ResultCache holds, and leaves every ResultCache unchanged;
\* when a condition does not compile the call sends nothing and leaves the
\* caches unchanged as well.
C17_UncachedCallsSearchOnce ==
    [][/\ ret'.op = "count" =>
             /\ caches' = caches
             /\ IF Prepares(Subject) THEN OneSearch(TRUE, FALSE, <<>>)
                ELSE sent' = <<>>
       /\ ret'.op = "hint" =>
             /\ caches' = caches
             /\ IF Prepares(Subject) THEN OneSearch(FALSE, TRUE, <<>>)
                ELSE sent' = <<>>
       /\ (ret'.op = "columns" /\ ret'.args[1] # <<>>
              /\ ~SomeWildcard(ret'.args[1])) =>
             /\ caches' = caches
             /\ IF Prepares(Subject) THEN OneSearch(FALSE, FALSE, ret'.args[1])
                ELSE sent' = <<>>]_vars

\* count() answered by a search of its own although the keys and a chunk
\* are cached
C17_Witness ==
    /\ ret.op = "count"
    /\ ret.status = "ok"
    /\ Len(sent) = 1 /\ sent[1].type = "search" /\ sent[1].count
    /\ ~IsNone(SubjectCache.keys)
    /\ DOMAIN SubjectCache.chunks # {}
    /\ nsearch[queries[Subject].cache] = 1

\* C18: on a query whose conditions compile, columns() with no names and
\* columns with '*' among its names return the list query[:] returns,
\* realized through the ResultCache, and send no search that names columns.
C18_NoNamesOrWildcardIsFullSlice ==
    ( /\ ret.op = "columns"
      /\ (ret.args[1] = <<>> \/ SomeWildcard(ret.args[1]))
      /\ Prepares(Subject) )
    => /\ ret.status = "ok"
       /\ ~IsNone(SubjectCache.keys)
       /\ ret.value = [i \in 1..Len(SubjectKeys) |-> Materialized(i - 1)]
       /\ \A k \in 1..Len(sent) :
             sent[k].type = "search" => sent[k].columns = <<>>

\* columns() with no names: one plain search outside the ResultCache, whose
\* keys are decoded as if they were records, raising IndexError
C18_NoNamesRaisesIndexError ==
    /\ ret.op = "columns"
    /\ ret.args = << <<>> >>
    /\ ret.status = "IndexError"
    /\ Len(sent) = 1 /\ sent[1].type = "search" /\ sent[1].columns = <<>>
    /\ Len(ret.replies[1]) = 3
    /\ IsNone(SubjectCache.keys)

\* C20: query[i] with i at or past the length N of the realized key list
\* (N = 0 included) raises IndexError and returns no item, whether chunk
\* get_chunk_number(i) starts past the end or is the last, partly filled
\* one; no multi-get it sends is for a chunk starting at or beyond N.
C20_IndexPastEndRaises ==
    ( /\ ret.op = "getitem"
      /\ ret.args[1] >= 0
      /\ ~IsNone(SubjectCache.keys)
      /\ ret.args[1] >= Len(SubjectKeys) )
    => /\ ret.status = "IndexError"
       /\ IsNone(ret.value)
       /\ \A k \in 1..Len(sent) :
             sent[k].type = "mget" =>
                get_chunk_boundaries(SubjectCache, sent[k].chunk)[1]
                   < Len(SubjectKeys)

\* query[3] on three keys in chunks of two: the last chunk is fetched and
\* holds one item, the index is past it
C20_Witness ==
    /\ ret.op = "getitem"
    /\ ret.args = <<3>>
    /\ ret.status = "IndexError"
    /\ SubjectCache.chunk_size = 2
    /\ Len(SubjectKeys) = 3
    /\ \E k \in 1..Len(sent) : sent[k].type = "mget" /\ sent[k].chunk = 1
    /\ Len(SubjectCache.chunks[1]) = 1

\* C26: delete() leaves every ResultCache as it was; an access that comes
\* right after it on realized keys sends no search, keeps the key list and
\* the cached chunks, and fetches only chunks that were not cached;
\* membership is answered from the cached keys and an index whose chunk is
\* cached with the cached item, without any request.
C26_DeleteKeepsCache ==
    [][/\ ret'.op = "delete" =>
             /\ caches' = caches
             /\ nsearch' = nsearch
             /\ nfetch' = nfetch
       /\ ( /\ ret.op = "delete"
            /\ ret'.op \in {"getitem", "getslice", "len", "contains"}
            /\ ~IsNone(SubjectCache.keys) ) =>
             /\ \A k \in 1..Len(sent') :
                   /\ sent'[k].type = "mget"
                   /\ sent'[k].chunk \notin DOMAIN SubjectCache.chunks
             /\ caches'[queries[Subject].cache].keys = SubjectCache.keys
             /\ \A n \in DOMAIN SubjectCache.chunks :
                   /\ n \in DOMAIN caches'[queries[Subject].cache].chunks
                   /\ caches'[queries[Subject].cache].chunks[n]
                         = SubjectCache.chunks[n]
             /\ ret'.op = "contains" =>
                   /\ sent' = <<>>
                   /\ ret'.value <=> \E i \in 1..Len(SubjectKeys) :
                                        SubjectKeys[i] = ret'.args[1]
             /\ ( /\ ret'.op = "getitem"
                  /\ ret'.args[1] >= 0
                  /\ get_chunk_number(SubjectCache, ret'.args[1])
                        \in DOMAIN SubjectCache.chunks ) =>
                   /\ sent' = <<>>
                   /\ ret'.args[1] < Len(SubjectKeys) =>
                         /\ ret'.status = "ok"
                         /\ ret'.value = Some(Materialized(ret'.args[1]))]_vars

\* delete() returned on a query whose keys and chunks are realized
C26_Witness ==
    /\ ret.op = "delete"
    /\ ret.status = "ok"
    /\ Len(sent) >= 1 /\ sent[1].out
    /\ ~IsNone(SubjectCache.keys)
    /\ Len(SubjectKeys) = 3
    /\ DOMAIN SubjectCache.chunks # {}

\* the chunk numbers of the multi-gets the last operation sent, in order
FetchedChunks ==
    With(SelectSeq(sent, IsMget), LAMBDA ms : [i \in 1..Len(ms) |-> ms[i].chunk])

\* the start of a slice given as an option
FromStart(a) == IF IsNone(a) THEN 0 ELSE Val(a)

\* C28: a slice [start:stop] with 0 <= start < stop sends multi-gets only
\* for chunks floor(start/S) .. floor((stop-1)/S), in increasing order,
\* none for a chunk that starts at or beyond the end of the key list and
\* none for a chunk fetched before; afterwards the chunks of that range
\* that start before the end of the key list are the ones it has cached
\* in addition.
C28_BoundedSliceFetchesItsChunks ==
    ( /\ ret.op = "getslice"
      /\ ret.status = "ok"
      /\ ~IsNone(ret.args[2])
      /\ FromStart(ret.args[1]) < Val(ret.args[2]) )
    => /\ \A i \in 1..Len(FetchedChunks) :
             /\ get_chunk_number(SubjectCache, FromStart(ret.args[1]))
                   <= FetchedChunks[i]
             /\ FetchedChunks[i]
                   <= get_chunk_number(SubjectCache, Val(ret.args[2]) - 1)
             /\ get_chunk_boundaries(SubjectCache, FetchedChunks[i])[1]
                   < Len(SubjectKeys)
             /\ nfetch[queries[Subject].cache][FetchedChunks[i]] = 1
             /\ \A j \in 1..Len(FetchedChunks) :
                   i < j => FetchedChunks[i] < FetchedChunks[j]
       /\ \A n \in get_chunk_number(SubjectCache, FromStart(ret.args[1]))
                   ..get_chunk_number(SubjectCache, Val(ret.args[2]) - 1) :
             get_chunk_boundaries(SubjectCache, n)[1] < Len(SubjectKeys)
                => n \in DOMAIN SubjectCache.chunks

\* query[1:3] on three keys in chunks of one: chunks 1 and 2 fetched, in
\* this order, chunk 0 not
C28_Witness ==
    /\ ret.op = "getslice"
    /\ ret.status = "ok"
    /\ ret.args = <<Some(1), Some(3)>>
    /\ SubjectCache.chunk_size = 1
    /\ Len(SubjectKeys) = 3
    /\ FetchedChunks = <<1, 2>>
    /\ 0 \notin DOMAIN SubjectCache.chunks

(***************************************************************************)
(* Properties of building (specification SpecBuilder)                      *)
(***************************************************************************)
Combinators == {"filter", "exclude", "order_by", "union", "intersect", "minus"}

\* what a query is to its holder: its conditions (with their negate flags),
\* ordering, metasearch operator and branches, and its cache with contents
QueryView(h, q) ==
    [fields |-> h.queries[q],
     conditions |-> Deref(h, h.queries[q].conditions),
     branches |-> DerefBranches(h, h.queries[q]),
     cache |-> h.caches[h.queries[q].cache]]

\* the list objects and the Condition objects reachable from a query
ListsOf(h, q) ==
    {h.queries[q].conditions}
    \cup (IF IsNone(h.queries[q].ms_conditions) THEN {}
          ELSE {Val(h.queries[q].ms_conditions)}
               \cup {h.lists[Val(h.queries[q].ms_conditions)][i] :
                        i \in 1..Len(h.lists[Val(h.queries[q].ms_conditions)])})

ConditionsOf(h, q) ==
    {h.lists[h.queries[q].conditions][i] :
        i \in 1..Len(h.lists[h.queries[q].conditions])}
    \cup (IF IsNone(h.queries[q].ms_conditions) THEN {}
          ELSE UNION {{h.lists[l][i] : i \in 1..Len(h.lists[l])} :
                        l \in {h.lists[Val(h.queries[q].ms_conditions)][i] :
                                 i \in 1..Len(h.lists[Val(h.queries[q].ms_conditions)])}})

\* query q shares no list and no Condition object with any other query
Unshared(h, q) ==
    \A o \in 1..Len(h.queries) :
        o # q => /\ ListsOf(h, o) \cap ListsOf(h, q) = {}
                 /\ ConditionsOf(h, o) \cap ConditionsOf(h, q) = {}

\* C6: a combinator call leaves every existing query (the receiver and the
\* `other` argument among them) as it was: conditions and negate flags,
\* ordering, operator, branches, cache.  When it returns, the result is a
\* new Query that shares no list and no Condition with any other query, so
\* that no mutation of its lists reaches them.
C6_CombinatorsLeaveReceiver ==
    [][ret'.op \in Combinators =>
          /\ \A q \in 1..Len(queries) :
                /\ q \in 1..Len(queries')
                /\ QueryView(Heap', q) = QueryView(Heap, q)
          /\ ret'.status = "ok" =>
                /\ Len(queries') = Len(queries) + 1
                /\ ret'.value = Len(queries')
                /\ Unshared(Heap', ret'.value)]_vars

\* a union of a receiver that has conditions with another query, both
\* evaluated before
C6_Witness ==
    /\ ret.op = "union"
    /\ ret.status = "ok"
    /\ ret.args[1] # ret.q
    /\ Len(lists[queries[ret.q].conditions]) > 0
    /\ ~IsNone(caches[queries[ret.q].cache].keys)
    /\ ~IsNone(caches[queries[ret.args[1]].cache].keys)

\* a metasearch combinator with operator args[2] called on receiver q with
\* other query args[1]: when the receiver has no operator or the same one
\* a new query is returned, with that operator and with the conditions of
\* `other` as one more branch; otherwise exception `error` is raised and no
\* query is created
MetasearchStep(error) ==
    ret'.op \in {"union", "intersect", "minus"} =>
        IF queries[ret'.q].ms_type \in {"None", ret'.args[2]}
        THEN /\ ret'.status = "ok"
             /\ Len(queries') = Len(queries) + 1
             /\ ret'.value = Len(queries')
             /\ queries'[ret'.value].ms_type = ret'.args[2]
             /\ DerefBranches(Heap', queries'[ret'.value]) =
                   Append(DerefBranches(Heap, queries[ret'.q]),
                          Deref(Heap, queries[ret'.args[1]].conditions))
        ELSE /\ ret'.status = error
             /\ ret'.value = 0
             /\ queries' = queries

\* C7: adding a branch with the tree's operator (or to a tree without one)
\* succeeds; adding one with a different operator fails with
\* CompositionError and produces no query.
C7_MixedOperatorCompositionError == [][MetasearchStep("CompositionError")]_vars

\* C7, as the code has it: adding a branch with the tree's operator (or to
\* a tree without one) succeeds; adding one with a different operator fails
\* with AssertionError and produces no query.
C7_MixedOperatorAssertionError == [][MetasearchStep("AssertionError")]_vars

\* intersect refused on the result of a union
C7_Witness ==
    /\ ret.op = "intersect"
    /\ ret.status = "AssertionError"
    /\ queries[ret.q].ms_type = "TDBMSUNION"
    /\ Len(DerefBranches(Heap, queries[ret.q])) = 1

(***************************************************************************)
(* Specification of compilation: one Condition, created by filter or       *)
(* exclude from a keyword argument, is prepared.                           *)
(***************************************************************************)
\* longest list given as the expression of a keyword
MaxArgs == 3

\* the lists of up to n elements over a set of values
RECURSIVE ListsOver(_, _)
ListsOver(elems, n) ==
    IF n = 0 THEN {<<>>}
    ELSE ListsOver(elems, n - 1)
         \cup {Append(l, e) : l \in {x \in ListsOver(elems, n - 1) : Len(x) = n - 1},
                               e \in elems}

\* the expressions given to a keyword: scalars and lists
Expressions ==
    {PyInt(1), PyStr("Foo"), PyStr("12"), PyBool(TRUE), PyBool(FALSE)}
    \cup {PyList(l) : l \in ListsOver({PyInt(1), PyStr("Foo")}, MaxArgs)}

\* the lookup names given after "__": every known one and an unknown one
LookupNames == KnownLookups \cup {"foo"}

\* the state after filter (negate false) or exclude (negate true) has
\* created the Condition for col__<lookup>=expr
InitPrepare ==
    \E lookup \in LookupNames, expr \in Expressions, negate \in BOOLEAN :
        /\ conds = NewConditions(negate, <<>>, << <<<<"col", lookup>>, expr>> >>)
        /\ lists = <<>>
        /\ queries = <<>>
        /\ caches = <<>>
        /\ nsearch = <<>>
        /\ nfetch = <<>>
        /\ sent = <<>>
        /\ ret = InitRet
        /\ tyrant = NoTyrant
        /\ callers = NoCallers

\* conds[i].prepare()
Prepare(i) ==
    /\ ret' = [op |-> "prepare", q |-> i, args |-> <<>>,
               status |-> prepare(conds[i]).status,
               value |-> prepare(conds[i]), replies |-> <<>>]
    /\ UNCHANGED <<conds, lists, queries, caches, nsearch, nfetch, sent, tyrant,
                 callers>>

NextPrepare == \E i \in 1..Len(conds) : Prepare(i)

SpecPrepare == InitPrepare /\ [][NextPrepare]_vars

(***************************************************************************)
(* Properties of compilation (specification SpecPrepare)                   *)
(***************************************************************************)
\* the Condition prepared last
Subjected == conds[ret.q]

\* no candidate definition of the lookup matches the expression
Unmatched(c) ==
    /\ c.lookup \in KnownLookups
    /\ \A i \in 1..Len(LOOKUP_DEFINITIONS(c.lookup)) :
           ~accepts(LOOKUP_DEFINITIONS(c.lookup)[i], c.expr)

\* C11: prepare() of a Condition whose lookup is not in the registry, or
\* whose expression matches none of the lookup's definitions, fails with
\* LookupError.
C11_FailsWithLookupError ==
    ( /\ ret.op = "prepare"
      /\ (Subjected.lookup \notin KnownLookups \/ Unmatched(Subjected)) )
    => ret.status = "LookupError"

\* C11, as the code has it: prepare() fails with NameError when the lookup
\* is not in the registry, and with ValueError when the lookup is known but
\* its expression matches none of its definitions.
C11_FailsWithNameOrValueError ==
    ret.op = "prepare" =>
       /\ Subjected.lookup \notin KnownLookups => ret.status = "NameError"
       /\ Unmatched(Subjected) => ret.status = "ValueError"

\* price__gt="Foo": a known lookup none of whose definitions matches
C11_Witness ==
    /\ ret.op = "prepare"
    /\ Subjected.lookup = "gt"
    /\ Subjected.expr = PyStr("Foo")
    /\ ret.status = "ValueError"

\* a value is numeric: an int, a float, a bool, or a string int() parses
IsNumeric(v) == v.kind \in {"int", "bool"} \/ (v.kind = "str" /\ IntParsable(v.s))

\* the outcome of preparing a `between` Condition, where Shape says which
\* lists of length 2 are of the shape that compiles: exactly those compile,
\* to the numeric-between operator, and every other expression (lists of
\* length 1 and of length 3 or more among them) fails with ValueError
BetweenCompiles(Shape(_)) ==
    (ret.op = "prepare" /\ Subjected.lookup = "between") =>
       IF /\ Subjected.expr.kind = "list"
          /\ Len(Subjected.expr.items) = 2
          /\ Shape(Subjected.expr.items)
       THEN ret.status = "ok" /\ ret.value.op = "RDBQCNUMBT"
       ELSE ret.status = "ValueError"

AllNumeric(items) == \A i \in 1..Len(items) : IsNumeric(items[i])
FirstNumeric(items) == IsNumeric(items[1])

\* C12: `between` compiles exactly when its expression is a sequence of
\* length 2 all of whose elements are numeric, to the numeric-between
\* operator; sequences of length 1 and of length 3 or more fail with
\* ValueError.
C12_BetweenNumericPair == BetweenCompiles(AllNumeric)

\* C12, as the code has it: `between` compiles exactly when its expression
\* is a sequence of length 2 whose first element is numeric (the other
\* element is not looked at), to the numeric-between operator; every other
\* expression, sequences of length 1 and of 3 or more among them, fails
\* with ValueError.
C12_BetweenFirstNumericPair == BetweenCompiles(FirstNumeric)

\* price__between=[1, "Foo"] compiled
C12_Witness ==
    /\ ret.op = "prepare"
    /\ Subjected.lookup = "between"
    /\ Subjected.expr = PyList(<<PyInt(1), PyStr("Foo")>>)
    /\ ret.status = "ok"
    /\ ret.value.op = "RDBQCNUMBT"

\* the Condition filter (negate false) or exclude (negate true) creates
\* for col__exists=b
ExistsCondition(negate, b) ==
    NewConditions(negate, <<>>, << <<<<"col", "exists">>, PyBool(b)>> >>)[1]

\* C13: for col__exists=b the effective negation is the caller's negate
\* flag XOR (b is false); column, operator and the canned expression are
\* those of exists=True, the boolean is not part of the triple, and the
\* opposite boolean under the opposite negate flag compiles to the same
\* triple (exclude(col__exists=False) as filter(col__exists=True)).
C13_ExistsNegationXor ==
    ( /\ ret.op = "prepare"
      /\ Subjected.lookup = "exists"
      /\ Subjected.expr.kind = "bool" )
    => /\ ret.status = "ok"
       /\ ret.value.name = "col"
       /\ ret.value.op = "RDBQCSTRRX"
       /\ ret.value.value = PyStr("")
       /\ ret.value.negate = (Subjected.negate # (Subjected.expr.n = 0))
       /\ ret.value = prepare(ExistsCondition(~Subjected.negate,
                                              Subjected.expr.n = 0))

\* exclude(col__exists=False) compiled without the negation bit
C13_Witness ==
    /\ ret.op = "prepare"
    /\ Subjected = ExistsCondition(TRUE, FALSE)
    /\ ret.status = "ok"
    /\ ~ret.value.negate
    /\ ret.value = prepare(ExistsCondition(FALSE, TRUE))

(***************************************************************************)
(* Further properties of building (specification SpecBuilder)              *)
(***************************************************************************)
\* two Orderings agree in column, direction and method
SameOrdering(a, b) ==
    a.name = b.name /\ a.direction = b.direction /\ a.method = b.method

\* C16: order_by returns a query with the Ordering asked for; it shares
\* the receiver's ResultCache iff that Ordering equals the receiver's in
\* column, direction and method, and has a new, empty ResultCache
\* otherwise.  Hence two queries that share a cache have equal Orderings.
C16_OrderBySharesCacheIffEqual ==
    [][ret'.op = "order_by" =>
          /\ queries'[ret'.value].ordering =
                [name |-> Some(ret'.args[1].rest),
                 direction |-> IF ret'.args[1].minus THEN DESC ELSE ASC,
                 method |-> IF ret'.args[2] THEN NUMERIC ELSE ALPHABETIC]
          /\ (queries'[ret'.value].cache = queries[ret'.q].cache)
                <=> SameOrdering(queries'[ret'.value].ordering,
                                 queries[ret'.q].ordering)
          /\ ~SameOrdering(queries'[ret'.value].ordering,
                           queries[ret'.q].ordering) =>
                /\ queries'[ret'.value].cache \notin 1..Len(caches)
                /\ IsNone(caches'[queries'[ret'.value].cache].keys)
                /\ DOMAIN caches'[queries'[ret'.value].cache].chunks = {}
          /\ \A a, b \in 1..Len(queries') :
                queries'[a].cache = queries'[b].cache =>
                   SameOrdering(queries'[a].ordering, queries'[b].ordering)]_vars

\* order_by with the receiver's own ordering, the receiver evaluated
\* before: the result shares the populated cache
C16_Witness ==
    /\ ret.op = "order_by"
    /\ ret.value # ret.q
    /\ queries[ret.value].cache = queries[ret.q].cache
    /\ ~IsNone(queries[ret.q].ordering.name)
    /\ ~IsNone(caches[queries[ret.q].cache].keys)

\* res is recv followed by n more conditions
AppendOnly(recv, res, n) ==
    /\ Len(res) = Len(recv) + n
    /\ \A i \in 1..Len(recv) : res[i] = recv[i]

\* the conditions of res after the first n are those made from the
\* Condition objects args, then those of the keywords kwargs; Flag(c) is
\* the negate flag expected of the one made from the object c, and the
\* keyword conditions carry the flag kwflag
AppendedAre(res, n, args, kwargs, Flag(_), kwflag) ==
    /\ \A i \in 1..Len(args) :
          res[n + i] = [args[i] EXCEPT !.negate = Flag(args[i])]
    /\ \A i \in 1..Len(kwargs) :
          res[n + Len(args) + i] =
             Condition(kwargs[i][1], kwargs[i][2], kwflag)

\* C19 as stated: the result's conditions are the receiver's, unchanged and
\* in order, followed by the new ones; every condition appended by exclude
\* has negate set, also one made from an already negated Condition
\* object, and every condition filter makes from a keyword has it clear.
C19_ExcludeSetsNegate ==
    [][ret'.op \in {"filter", "exclude"} =>
          /\ AppendOnly(Deref(Heap, queries[ret'.q].conditions),
                        Deref(Heap', queries'[ret'.value].conditions),
                        Len(ret'.args[1]) + Len(ret'.args[2]))
          /\ AppendedAre(Deref(Heap', queries'[ret'.value].conditions),
                         Len(Deref(Heap, queries[ret'.q].conditions)),
                         ret'.args[1], ret'.args[2],
                         LAMBDA c : IF ret'.op = "exclude" THEN TRUE
                                    ELSE c.negate,
                         ret'.op = "exclude")]_vars

\* C19: the result's conditions are the receiver's, unchanged and in
\* order, followed by the new ones: first one per Condition object given,
\* with the object's negate flag kept by filter and inverted by exclude
\* (an already negated one comes out not negated), then one per keyword,
\* with negate set by exclude and clear by filter.
C19_ExcludeInvertsNegate ==
    [][ret'.op \in {"filter", "exclude"} =>
          /\ AppendOnly(Deref(Heap, queries[ret'.q].conditions),
                        Deref(Heap', queries'[ret'.value].conditions),
                        Len(ret'.args[1]) + Len(ret'.args[2]))
          /\ AppendedAre(Deref(Heap', queries'[ret'.value].conditions),
                         Len(Deref(Heap, queries[ret'.q].conditions)),
                         ret'.args[1], ret'.args[2],
                         LAMBDA c : c.negate # (ret'.op = "exclude"),
                         ret'.op = "exclude")]_vars

\* exclude of an already negated Condition object on a receiver that has
\* two negated conditions: they are kept, and the new one is not negated
C19_Witness ==
    /\ ret.op = "exclude"
    /\ Len(ret.args[1]) = 1 /\ ret.args[1][1].negate
    /\ Len(Deref(Heap, queries[ret.value].conditions)) = 3
    /\ Deref(Heap, queries[ret.value].conditions)[1].negate
    /\ Deref(Heap, queries[ret.value].conditions)[2].negate
    /\ ~Deref(Heap, queries[ret.value].conditions)[3].negate

\* the plain search request of query q, as _do_search builds it
PlainRequest(q) ==
    Query_do_search(Heap, q, FALSE, FALSE, FALSE, <<>>).request

\* C21: the order code of a request is decided by the direction and the
\* method of the query's Ordering, two requests carrying the same code iff
\* both agree, so the four combinations have four distinct codes; an
\* Ordering without column is falsy, and the request of a query with such
\* an Ordering carries no order column and no order code, while the
\* request of an ordered query carries its column.
C21_OrderCodesDistinct ==
    /\ \A q \in 1..Len(queries) :
          IF IsNone(queries[q].ordering.name)
          THEN /\ ~Ordering__nonzero__(queries[q].ordering)
               /\ IsNone(PlainRequest(q).order_column)
               /\ IsNone(PlainRequest(q).order_type)
          ELSE /\ PlainRequest(q).order_column = queries[q].ordering.name
               /\ ~IsNone(PlainRequest(q).order_type)
    /\ \A a, b \in 1..Len(queries) :
          (~IsNone(queries[a].ordering.name) /\ ~IsNone(queries[b].ordering.name))
          => ( PlainRequest(a).order_type = PlainRequest(b).order_type
               <=> /\ queries[a].ordering.direction = queries[b].ordering.direction
                   /\ queries[a].ordering.method = queries[b].ordering.method )
    /\ (ret.op = "getslice" /\ Len(sent) > 0) =>
          /\ sent[1].order_column = PlainRequest(ret.q).order_column
          /\ sent[1].order_type = PlainRequest(ret.q).order_type

\* order_by('-name') and order_by('-name', numeric) beside the unordered
\* query they were made from
C21_Witness ==
    /\ ret.op = "order_by"
    /\ \E a, b, c \in 1..Len(queries) :
          /\ IsNone(queries[a].ordering.name)
          /\ queries[b].ordering = Ordering(Some("name"), Some(DESC), FALSE)
          /\ queries[c].ordering = Ordering(Some("name"), Some(DESC), TRUE)
          /\ PlainRequest(b).order_type # PlainRequest(c).order_type

\* the number of metasearch branches of query q in heap h
BranchCount(h, q) == Len(DerefBranches(h, h.queries[q]))

\* C24: in every query the metasearch operator is none iff the query has
\* no branch, and its search request carries the operator and the branches
\* exactly when there is a branch; union, intersect and minus return a
\* query with one branch more than the receiver and their own operator,
\* which is the receiver's unless that had none; filter, exclude and
\* order_by return a query with the receiver's operator and branches.  So
\* every branch of a query was added with the operator the query holds.
C24_OneOperatorForAllBranches ==
    /\ [](\A q \in 1..Len(queries) :
            /\ (queries[q].ms_type = "None") <=> (BranchCount(Heap, q) = 0)
            /\ PlainRequest(q).ms_type = queries[q].ms_type
            /\ Len(PlainRequest(q).ms_conditions) = BranchCount(Heap, q))
    /\ [][/\ (ret'.op \in {"union", "intersect", "minus"} /\ ret'.status = "ok") =>
               /\ queries'[ret'.value].ms_type = ret'.args[2]
               /\ queries[ret'.q].ms_type \in {"None", ret'.args[2]}
               /\ BranchCount(Heap', ret'.value) = BranchCount(Heap, ret'.q) + 1
          /\ ret'.op \in {"filter", "exclude", "order_by"} =>
               /\ queries'[ret'.value].ms_type = queries[ret'.q].ms_type
               /\ DerefBranches(Heap', queries'[ret'.value]) =
                     DerefBranches(Heap, queries[ret'.q])]_vars

\* a second union on the result of a union: two branches, one operator
C24_Witness ==
    /\ ret.op = "union"
    /\ ret.status = "ok"
    /\ BranchCount(Heap, ret.q) = 1
    /\ BranchCount(Heap, ret.value) = 2
    /\ queries[ret.value].ms_type = "TDBMSUNION"
    /\ PlainRequest(ret.value).ms_type = "TDBMSUNION"

\* C25: the query returned by filter, exclude, union, intersect or minus
\* has the Ordering of the query it was called on, and its search request
\* the same order column and order code.
C25_OrderingKeptByOtherCombinators ==
    ( /\ ret.op \in {"filter", "exclude", "union", "intersect", "minus"}
      /\ ret.status = "ok" )
    => /\ SameOrdering(queries[ret.value].ordering, queries[ret.q].ordering)
       /\ PlainRequest(ret.value).order_column = PlainRequest(ret.q).order_column
       /\ PlainRequest(ret.value).order_type = PlainRequest(ret.q).order_type

\* filter called on a query ordered by a column: the result has no order
\* column and its request no ordering
C25_FilterDropsOrdering ==
    /\ ret.op = "filter"
    /\ queries[ret.q].ordering.name = Some("name")
    /\ IsNone(queries[ret.value].ordering.name)
    /\ PlainRequest(ret.q).order_column = Some("name")
    /\ IsNone(PlainRequest(ret.value).order_column)
    /\ IsNone(PlainRequest(ret.value).order_type)

MaxStored == 2

DBTYPETABLE == "table"
DBTYPEHASH == "hash"

\* the column separator of a table record, and the separator given to Tyrant
NUL == "\\x00"
SEP == ","

\* Python values at the facade
TNone == [kind |-> "none", v |-> <<>>]
TStr(s) == [kind |-> "str", v |-> s]
TBool(b) == [kind |-> "bool", v |-> b]
TList(items) == [kind |-> "list", v |-> items]
TDict(d) == [kind |-> "dict", v |-> d]

\* a == b for two such values
Same(a, b) == a.kind = b.kind /\ a.v = b.v

\* s.split(sep)
RECURSIVE split(_, _)
split(s, sep) ==
    IF \A i \in 1..Len(s) : s[i] # sep THEN <<s>>
    ELSE LET first == CHOOSE i \in 1..Len(s) :
                         s[i] = sep /\ \A j \in 1..(i - 1) : s[j] # sep
         IN <<SubSeq(s, 1, first - 1)>>
            \o split(SubSeq(s, first + 1, Len(s)), sep)

\* sep.join(items)
RECURSIVE join(_, _)
join(items, sep) ==
    IF items = <<>> THEN <<>>
    ELSE IF Len(items) = 1 THEN items[1]
    ELSE items[1] \o <<sep>> \o join(Tail(items), sep)

\* the flattened (name, value) pairs of a dict, in its iteration order
RECURSIVE iteritems(_)
iteritems(d) ==
    IF DOMAIN d = {} THEN <<>>
    ELSE LET c == CHOOSE c \in DOMAIN d : TRUE
         IN <<c, d[c]>> \o iteritems([x \in (DOMAIN d) \ {c} |-> d[x]])

\* dict((elems[i], elems[i + 1]) for i in xrange(0, len(elems), 2)) for an
\* even number of elements: a later pair replaces an earlier one
PairsDict(elems) ==
    [c \in {elems[i] : i \in {j \in 1..Len(elems) : j % 2 = 1}} |->
        elems[(CHOOSE i \in 1..Len(elems) :
                  /\ i % 2 = 1 /\ elems[i] = c
                  /\ \A j \in 1..Len(elems) :
                        (j % 2 = 1 /\ elems[j] = c) => j <= i) + 1]]

\* _parse_elem(elem, dbtype, sep): the value, or the IndexError raised by
\* elems[i + 1] on an odd number of elements
_parse_elem(elem, dbtype, sep) ==
    IF dbtype = DBTYPETABLE
    THEN IF split(elem, NUL)[1] = <<>>
         THEN [status |-> "ok", value |-> TNone]
         ELSE IF Len(split(elem, NUL)) % 2 = 1
         THEN [status |-> "IndexError", value |-> TNone]
         ELSE [status |-> "ok", value |-> TDict(PairsDict(split(elem, NUL)))]
    ELSE IF ~IsNone(sep) /\ Val(sep) # "" /\ \E i \in 1..Len(elem) : elem[i] = Val(sep)
    THEN [status |-> "ok", value |-> TList(split(elem, Val(sep)))]
    ELSE [status |-> "ok", value |-> TStr(elem)]

\* the keys of the store
StoredKeys == {KeyNames[i] : i \in 1..MaxStored}

\* protocol.put(key, value)
proto_put(records, key, value) == [records EXCEPT ![key] = Some(value)]

\* protocol.misc('put', [key, name, value, ...]): the record's columns, kept
\* as get returns them, NUL-separated
proto_misc_put(records, args) ==
    [records EXCEPT ![args[1]] = Some(join(Tail(args), NUL))]

\* protocol.get(key): the raw value; fails when the key is absent
proto_get(records, key) ==
    IF IsNone(records[key]) THEN [status |-> "TyrantError", value |-> <<>>]
    ELSE [status |-> "ok", value |-> Val(records[key])]

\* protocol.vsiz(key): the size of the value; fails when the key is absent
proto_vsiz(records, key) ==
    IF IsNone(records[key]) THEN [status |-> "TyrantError", value |-> 0]
    ELSE [status |-> "ok", value |-> Len(Val(records[key]))]

\* protocol.out(key): removes the record; fails when the key is absent
proto_out(records, key) ==
    IF IsNone(records[key]) THEN [status |-> "TyrantError", records |-> records]
    ELSE [status |-> "ok", records |-> [records EXCEPT ![key] = None]]

\* protocol.misc('getlist', keys): for the keys found, in the order asked,
\* their values (server 1.1.10) or key and value interleaved (1.1.11)
RECURSIVE proto_misc_getlist(_, _, _)
proto_misc_getlist(records, keys, interleaved) ==
    IF keys = <<>> THEN <<>>
    ELSE (IF IsNone(records[Head(keys)]) THEN <<>>
          ELSE IF interleaved THEN <<<<Head(keys)>>, Val(records[Head(keys)])>>
          ELSE <<Val(records[Head(keys)])>>)
         \o proto_misc_getlist(records, Tail(keys), interleaved)

\* Tyrant.__init__ on a store without records.  previous and written keep,
\* for the properties, the records before the last call and the value last
\* assigned to each key still present.
Tyrant(dbtype, separator) ==
    [dbtype |-> dbtype, separator |-> separator,
     records |-> [k \in StoredKeys |-> None],
     previous |-> [k \in StoredKeys |-> None],
     written |-> [k \in StoredKeys |-> None]]

\* the state after a call on the Tyrant object: its records, the outcome
\* and the replies of the protocol kept with it
Called(records, written, op, args, status, value, replies) ==
    /\ tyrant' = [tyrant EXCEPT !.records = records, !.written = written,
                                !.previous = tyrant.records]
    /\ ret' = [op |-> op, q |-> 0, args |-> args, status |-> status,
               value |-> value, replies |-> replies]
    /\ UNCHANGED <<conds, lists, queries, caches, nsearch, nfetch, sent,
                 callers>>

\* the records after t[key] = value, or the AssertionError of a list
\* assigned without separator
Tyrant__setitem__(t, key, value) ==
    IF value.kind = "dict"
    THEN [status |-> "ok",
          records |-> proto_misc_put(t.records, <<key>> \o iteritems(value.v))]
    ELSE IF value.kind = "list"
    THEN IF IsNone(t.separator) \/ Val(t.separator) = ""
         THEN [status |-> "AssertionError", records |-> t.records]
         ELSE [status |-> "ok",
               records |-> proto_put(t.records, key,
                                     join(value.v, Val(t.separator)))]
    ELSE [status |-> "ok", records |-> proto_put(t.records, key, value.v)]

\* del t[key]
Tyrant__delitem__(t, key) ==
    IF proto_out(t.records, key).status = "ok"
    THEN [status |-> "ok", records |-> proto_out(t.records, key).records]
    ELSE [status |-> "KeyError", records |-> t.records]

\* t[key]
Tyrant__getitem__(t, key) ==
    IF proto_get(t.records, key).status = "ok"
    THEN _parse_elem(proto_get(t.records, key).value, t.dbtype, t.separator)
    ELSE [status |-> "KeyError", value |-> TNone]

\* key in t
Tyrant__contains__(t, key) == proto_vsiz(t.records, key).status = "ok"

\* t.get(key, default)
Tyrant_get(t, key, default) ==
    IF Tyrant__getitem__(t, key).status = "KeyError"
    THEN [status |-> "ok", value |-> default]
    ELSE Tyrant__getitem__(t, key)

\* the mapping made of an interleaved reply; "IndexError" when a value
\* does not parse
InterleavedDict(t, rval) ==
    IF \E i \in 1..Len(rval) :
          i % 2 = 0 /\ _parse_elem(rval[i], t.dbtype, t.separator).status # "ok"
    THEN [status |-> "IndexError", value |-> TNone]
    ELSE [status |-> "ok",
          value |-> TDict([c \in DOMAIN PairsDict(rval) |->
                             _parse_elem(PairsDict(rval)[c], t.dbtype,
                                         t.separator).value])]

\* multi_get taking a reply of as many results as keys for an unusable one
Tyrant_multi_get_equal_unusable(t, keys, rval) ==
    IF Len(rval) <= Len(keys)
    THEN [status |-> "KeyError", value |-> TNone]
    ELSE InterleavedDict(t, rval)

\* multi_get(keys) given the reply rval of misc('getlist', keys)
Tyrant_multi_get(t, keys, rval) ==
    IF Len(rval) <= Len(keys)
    THEN IF Len(rval) < Len(keys)
         THEN [status |-> "KeyError", value |-> TNone]
         ELSE [status |-> "ok", value |-> TList(rval)]
    ELSE InterleavedDict(t, rval)

(***************************************************************************)
(* Specification of the facade: one Tyrant object, used as a dictionary.   *)
(***************************************************************************)
\* the values assigned: on a table dicts, elsewhere strings and lists
TableValues ==
    {TDict((<<"n">> :> <<"x">>)),
     TDict((<<"n">> :> <<"x">>) @@ (<<"m">> :> <<>>))}
HashValues ==
    {TStr(<<"x">>), TStr(<<"x", SEP, "y">>),
     TList(<<<<"x">>>>), TList(<<<<"x">>, <<"y">>>>)}
ValuesFor(dbtype) == IF dbtype = DBTYPETABLE THEN TableValues ELSE HashValues

Defaults == {TNone, TStr(<<"d">>)}

\* the lists of distinct keys asked of multi_get
RECURSIVE KeySeqs(_)
KeySeqs(n) ==
    IF n = 0 THEN {<<>>}
    ELSE KeySeqs(n - 1)
         \cup {Append(l, k) : l \in {x \in KeySeqs(n - 1) : Len(x) = n - 1},
                              k \in StoredKeys}

DistinctKeySeqs ==
    {l \in KeySeqs(MaxStored) : \A i, j \in 1..Len(l) : l[i] = l[j] => i = j}

InitTyrant ==
    \E cfg \in {[dbtype |-> DBTYPEHASH, separator |-> None],
                [dbtype |-> DBTYPEHASH, separator |-> Some(SEP)],
                [dbtype |-> DBTYPETABLE, separator |-> None]} :
        /\ tyrant = Tyrant(cfg.dbtype, cfg.separator)
        /\ callers = NoCallers
        /\ conds = <<>>
        /\ lists = <<>>
        /\ queries = <<>>
        /\ caches = <<>>
        /\ nsearch = <<>>
        /\ nfetch = <<>>
        /\ sent = <<>>
        /\ ret = InitRet

\* t[key] = value
SetItem(key, value) ==
    \E r \in {Tyrant__setitem__(tyrant, key, value)} :
        Called(r.records,
               IF r.status = "ok"
               THEN [tyrant.written EXCEPT ![key] = Some(value)]
               ELSE tyrant.written,
               "setitem", <<key, value>>, r.status, TNone, <<>>)

\* del t[key]
DelItem(key) ==
    \E r \in {Tyrant__delitem__(tyrant, key)} :
        Called(r.records,
               IF r.status = "ok"
               THEN [tyrant.written EXCEPT ![key] = None]
               ELSE tyrant.written,
               "delitem", <<key>>, r.status, TNone, <<>>)

\* t[key]
TyrantGetItem(key) ==
    \E r \in {Tyrant__getitem__(tyrant, key)} :
        Called(tyrant.records, tyrant.written, "t_getitem", <<key>>,
               r.status, r.value, <<>>)

\* key in t
TyrantContains(key) ==
    Called(tyrant.records, tyrant.written, "t_contains", <<key>>, "ok",
           TBool(Tyrant__contains__(tyrant, key)), <<>>)

\* t.get(key, default)
Get(key, default) ==
    \E r \in {Tyrant_get(tyrant, key, default)} :
        Called(tyrant.records, tyrant.written, "get", <<key, default>>,
               r.status, r.value, <<>>)

\* t.multi_get(keys), answered by a server of either version
MultiGet(keys, interleaved) ==
    \E rval \in {proto_misc_getlist(tyrant.records, keys, interleaved)} :
        \E r \in {Tyrant_multi_get(tyrant, keys, rval)} :
            Called(tyrant.records, tyrant.written, "multi_get",
                   <<keys, interleaved>>, r.status, r.value, <<rval>>)

NextTyrant ==
    \/ \E k \in StoredKeys, v \in ValuesFor(tyrant.dbtype) : SetItem(k, v)
    \/ \E k \in StoredKeys : DelItem(k)
    \/ \E k \in StoredKeys : TyrantGetItem(k)
    \/ \E k \in StoredKeys : TyrantContains(k)
    \/ \E k \in StoredKeys, d \in Defaults : Get(k, d)
    \/ \E keys \in DistinctKeySeqs, i \in BOOLEAN : MultiGet(keys, i)

SpecTyrant == InitTyrant /\ [][NextTyrant]_vars

(***************************************************************************)
(* Properties of the facade (specification SpecTyrant)                     *)
(***************************************************************************)
\* C22: t[k] returns the value last assigned to k and `k in t` is true
\* while k has not been deleted since; once deleted (or never assigned)
\* t[k] raises KeyError, `k in t` is false and t.get(k, d) returns d;
\* del t[k] raises KeyError on an absent key and leaves the records as
\* they were, and removes a present one.
C22_DictionaryRoundTrip ==
    /\ ret.op = "t_getitem" =>
          IF IsNone(tyrant.written[ret.args[1]])
          THEN ret.status = "KeyError"
          ELSE /\ ret.status = "ok"
               /\ Same(ret.value, Val(tyrant.written[ret.args[1]]))
    /\ ret.op = "t_contains" =>
          (ret.value.v <=> ~IsNone(tyrant.written[ret.args[1]]))
    /\ ret.op = "get" =>
          /\ ret.status = "ok"
          /\ Same(ret.value,
                  IF IsNone(tyrant.written[ret.args[1]]) THEN ret.args[2]
                  ELSE Val(tyrant.written[ret.args[1]]))
    /\ ret.op = "delitem" =>
          IF IsNone(tyrant.previous[ret.args[1]])
          THEN ret.status = "KeyError" /\ tyrant.records = tyrant.previous
          ELSE ret.status = "ok" /\ IsNone(tyrant.records[ret.args[1]])

\* with a separator set, t[k] = ['x'] followed by t[k] answers 'x'
C22_OneElementListReadAsString ==
    /\ ret.op = "t_getitem"
    /\ ret.status = "ok"
    /\ tyrant.separator = Some(SEP)
    /\ ~IsNone(tyrant.written[ret.args[1]])
    /\ Same(Val(tyrant.written[ret.args[1]]), TList(<<<<"x">>>>))
    /\ Same(ret.value, TStr(<<"x">>))

MaxCaches == 5

\* t.query.order_by('name'), then order_by('name') on the result
InitResize ==
    InitFrom(With(NewQuery(EmptyHeap, DB_TABLE),
                  LAMBDA h0 :
                    With(Query_order_by(h0.h, h0.id,
                                        [minus |-> FALSE, rest |-> "name"], FALSE),
                         LAMBDA h1 :
                           Query_order_by(h1.h, h1.id,
                                          [minus |-> FALSE, rest |-> "name"],
                                          FALSE).h)))

\* query.set_chunk_size(size)
SetChunkSize(q, size) ==
    /\ Len(caches) < MaxCaches
    /\ \E h \in {Query_set_chunk_size(Heap, q, size)} :
          /\ queries' = h.queries
          /\ caches' = h.caches
          /\ nsearch' = PadSearch(h)
          /\ nfetch' = PadFetch(h)
    /\ sent' = <<>>
    /\ ret' = [op |-> "set_chunk_size", q |-> q, args |-> <<size>>,
               status |-> "ok", value |-> None, replies |-> <<>>]
    /\ UNCHANGED <<conds, lists, tyrant, callers>>

\* query[0], the table's keys matching
FirstItem(q) ==
    \E r \in {Query_get_item(Heap, q, 0, AllKeys)} :
        Accessed(q, r, "getitem", <<0>>)

NextResize ==
    \/ \E q \in Existing : FirstItem(q)
    \/ \E q \in Existing : Realize(q)
    \/ \E q \in Existing, size \in ChunkSizeArgs : SetChunkSize(q, size)

SpecResize == InitResize /\ [][NextResize]_vars

(***************************************************************************)
(* Properties of cache replacement (specification SpecResize)              *)
(***************************************************************************)
\* C23: set_chunk_size(size) gives the query a new ResultCache without keys
\* and chunks, of chunk size `size` or 1000 when size is none; the caches
\* that existed, the one it held among them, and the other queries, one
\* sharing that cache among them, are as before; the next index or slice
\* access to the query sends a key-list search, and multi-gets for what it
\* returns.
C23_SetChunkSizeDropsCache ==
    [][/\ ret'.op = "set_chunk_size" =>
             /\ queries'[ret'.q].cache \notin 1..Len(caches)
             /\ caches'[queries'[ret'.q].cache] =
                   [keys |-> None, chunks |-> <<>>,
                    chunk_size |-> IF IsNone(ret'.args[1]) THEN CACHE_CHUNK_SIZE
                                   ELSE Val(ret'.args[1])]
             /\ \A c \in 1..Len(caches) : caches'[c] = caches[c]
             /\ \A o \in 1..Len(queries) :
                   o # ret'.q => queries'[o] = queries[o]
       /\ ( /\ ret.op = "set_chunk_size"
            /\ ret'.op \in {"getitem", "getslice"}
            /\ ret'.q = ret.q ) =>
             /\ Len(sent') >= 1
             /\ sent'[1].type = "search"
             /\ (ret'.status = "ok" /\ ret'.value # <<>>) =>
                   \E k \in 1..Len(sent') : sent'[k].type = "mget"]_vars

\* the chunk size of a query set to 2 while the query sharing its former
\* cache still holds it, keys and a chunk realized
C23_Witness ==
    /\ ret.op = "set_chunk_size"
    /\ ret.args = <<Some(2)>>
    /\ caches[queries[ret.q].cache].chunk_size = 2
    /\ IsNone(caches[queries[ret.q].cache].keys)
    /\ \E o \in 1..Len(queries) :
          /\ o # ret.q
          /\ Ordering__eq__(queries[o].ordering, queries[ret.q].ordering)
          /\ ~IsNone(caches[queries[o].cache].keys)
          /\ DOMAIN caches[queries[o].cache].chunks # {}


(***************************************************************************)
(* Specification of a shared ResultCache: several callers evaluate         *)
(* query[index] on one Query without any lock, so that the statements of   *)
(* get_keys and get_chunk_data of one caller interleave with those of      *)
(* another.  Each action is one step of one caller between two points at   *)
(* which the cache is read or written or a request is sent.                *)
(***************************************************************************)
\* number of callers at work on the one ResultCache
MaxCallers == 2

Caller == 1..MaxCallers

\* a caller outside query[index]
Idle == [pc |-> "idle", index |-> 0, keys |-> <<>>, items |-> <<>>]

\* the ResultCache the callers share, and the chunk caller t works on
SharedId == queries[Subject].cache
SharedCache == caches[SharedId]
ChunkOf(t) == get_chunk_number(SharedCache, callers.at[t].index)

\* what a key-list search can answer while the callers are at work: every
\* key of the table, or all but the last one
SharedReplies == {AllKeys, SubSeq(AllKeys, 1, MaxKeys - 1)}

\* the items the callers ask for: the first and the last of the table
SharedIndices == {0, MaxKeys - 1}

InitShared ==
    \E cfg \in SampleQueries, size \in ChunkSizeArgs :
        \E h \in {BuildSample(cfg, size)} :
            /\ conds = h.conds
            /\ lists = h.lists
            /\ queries = h.queries
            /\ caches = h.caches
            /\ nsearch = [i \in 1..Len(h.caches) |-> 0]
            /\ nfetch = [i \in 1..Len(h.caches) |-> <<>>]
            /\ sent = <<>>
            /\ ret = InitRet
            /\ tyrant = NoTyrant
            /\ callers = [at |-> [t \in Caller |-> Idle], overlapped |-> FALSE]

\* caller t moves on with its local variables as in `local`
Moved(t, local) == callers' = [callers EXCEPT !.at[t] = local]

\* caller t leaves query[index] with an outcome
Left(t, status, value) ==
    /\ ret' = [op |-> "shared_getitem", q |-> Subject,
               args |-> <<callers.at[t].index>>, status |-> status,
               value |-> value, replies |-> <<>>]
    /\ Moved(t, Idle)

\* caller t enters query[index], 0 <= index; the run is no longer a
\* serialized one when another caller is inside
Enter(t, index) ==
    /\ callers.at[t].pc = "idle"
    /\ callers' = [callers EXCEPT
                     !.at[t] = [Idle EXCEPT !.pc = "get_keys", !.index = index],
                     !.overlapped = @ \/ \E u \in Caller \ {t} :
                                            callers.at[u].pc # "idle"]
    /\ UNCHANGED <<conds, lists, queries, caches, nsearch, nfetch, sent, ret,
                   tyrant>>

\* get_keys with the test left out: the getter is called every time
KeysAbsent_always(t) ==
    /\ callers.at[t].pc = "get_keys"
    /\ Moved(t, [callers.at[t] EXCEPT !.pc = "getter"])
    /\ UNCHANGED <<conds, lists, queries, caches, nsearch, nfetch, sent, ret,
                   tyrant>>

\* get_keys: `if self.keys is None`
KeysAbsent(t) ==
    /\ callers.at[t].pc = "get_keys"
    /\ Moved(t, [callers.at[t] EXCEPT
                   !.pc = IF IsNone(SharedCache.keys) THEN "getter"
                          ELSE "get_chunk_data"])
    /\ UNCHANGED <<conds, lists, queries, caches, nsearch, nfetch, sent, ret,
                   tyrant>>

\* get_keys: `keys = getter()`, the search of Query._do_search
Getter(t) ==
    /\ callers.at[t].pc = "getter"
    /\ \E s \in {Query_do_search(Heap, Subject, FALSE, FALSE, FALSE, <<>>)} :
          IF s.status # "ok"
          THEN /\ Left(t, s.status, None)
               /\ UNCHANGED <<nsearch, sent>>
          ELSE /\ \E reply \in SharedReplies :
                     Moved(t, [callers.at[t] EXCEPT !.pc = "store_keys",
                                                    !.keys = reply])
               /\ nsearch' = [nsearch EXCEPT ![SharedId] = @ + 1]
               /\ sent' = <<s.request>>
               /\ UNCHANGED ret
    /\ UNCHANGED <<conds, lists, queries, caches, nfetch, tyrant>>

\* get_keys: `self.keys = list(keys)`
StoreKeys(t) ==
    /\ callers.at[t].pc = "store_keys"
    /\ caches' = [caches EXCEPT ![SharedId].keys = Some(callers.at[t].keys)]
    /\ Moved(t, [callers.at[t] EXCEPT !.pc = "get_chunk_data", !.keys = <<>>])
    /\ UNCHANGED <<conds, lists, queries, nsearch, nfetch, sent, ret, tyrant>>

\* get_chunk_data: `if not number in self.chunks`, and up to the keys of the
\* chunk; get_item raises IndexError for a chunk without keys
ChunkAbsent(t) ==
    /\ callers.at[t].pc = "get_chunk_data"
    /\ IF ChunkOf(t) \in DOMAIN SharedCache.chunks
       THEN /\ Moved(t, [callers.at[t] EXCEPT !.pc = "return"])
            /\ UNCHANGED ret
       ELSE \E keys \in {PySlice(Val(SharedCache.keys),
                            get_chunk_boundaries(SharedCache, ChunkOf(t))[1],
                            get_chunk_boundaries(SharedCache, ChunkOf(t))[2] + 1)} :
               IF Len(Val(SharedCache.keys))
                     <= get_chunk_boundaries(SharedCache, ChunkOf(t))[1]
                  \/ keys = <<>>
               THEN Left(t, PyIndex(<<>>, 0).status, None)
               ELSE /\ Moved(t, [callers.at[t] EXCEPT !.pc = "mget",
                                                      !.keys = keys])
                    /\ UNCHANGED ret
    /\ UNCHANGED <<conds, lists, queries, caches, nsearch, nfetch, sent, tyrant>>

\* get_chunk_data: `pairs = self.query._proto.mget(keys)`
Mget(t) ==
    /\ callers.at[t].pc = "mget"
    /\ nfetch' = [nfetch EXCEPT ![SharedId] =
                    Bump(@, <<[chunk |-> ChunkOf(t),
                               keys |-> callers.at[t].keys]>>)]
    /\ sent' = MgetRequests(<<[chunk |-> ChunkOf(t),
                               keys |-> callers.at[t].keys]>>)
    /\ Moved(t, [callers.at[t] EXCEPT
                   !.pc = "store_chunk",
                   !.keys = <<>>,
                   !.items = ChunkItems(mget(callers.at[t].keys),
                                        queries[Subject].db_type)])
    /\ UNCHANGED <<conds, lists, queries, caches, nsearch, ret, tyrant>>

\* get_chunk_data: `self.chunks[number] = [prep(k,v) for k,v in pairs]`
StoreChunk(t) ==
    /\ callers.at[t].pc = "store_chunk"
    /\ caches' = [caches EXCEPT ![SharedId].chunks =
                    (ChunkOf(t) :> callers.at[t].items) @@ @]
    /\ Moved(t, [callers.at[t] EXCEPT !.pc = "return", !.items = <<>>])
    /\ UNCHANGED <<conds, lists, queries, nsearch, nfetch, sent, ret, tyrant>>

\* get_chunk_data: `return self.chunks[number]`, then get_item:
\* `return items[index - start]`
Return(t) ==
    /\ callers.at[t].pc = "return"
    /\ \E x \in {PyIndex(SharedCache.chunks[ChunkOf(t)],
                         callers.at[t].index
                           - get_chunk_boundaries(SharedCache, ChunkOf(t))[1])} :
          Left(t, x.status, x.item)
    /\ UNCHANGED <<conds, lists, queries, caches, nsearch, nfetch, sent, tyrant>>

NextShared ==
    \E t \in Caller :
        \/ \E index \in SharedIndices : Enter(t, index)
        \/ KeysAbsent(t)
        \/ Getter(t)
        \/ StoreKeys(t)
        \/ ChunkAbsent(t)
        \/ Mget(t)
        \/ StoreChunk(t)
        \/ Return(t)

SpecShared == InitShared /\ [][NextShared]_vars

(***************************************************************************)
(* Properties of a shared ResultCache (SpecShared)                         *)
(***************************************************************************)
\* C29: the search of the key list and the multi-get of a chunk are sent at
\* most once as long as no caller entered while another was inside; once
\* callers overlap nothing keeps a second caller from finding the key list
\* or the chunk absent too and sending the request again.
C29_OnlySerializedCallersFetchOnce ==
    ~callers.overlapped
    => /\ nsearch[SharedId] <= 1
       /\ \A n \in DOMAIN nfetch[SharedId] : nfetch[SharedId][n] <= 1

\* both callers found the key list absent and searched, and then both found
\* chunk 0 absent and sent the multi-get for it
C29_Witness ==
    /\ callers.overlapped
    /\ \A t \in 1..2 : callers.at[t].pc = "store_chunk" /\ ChunkOf(t) = 0
    /\ nsearch[SharedId] = 2
    /\ nfetch[SharedId][0] = 2
    /\ 0 \notin DOMAIN SharedCache.chunks


(***************************************************************************)
(* Iteration over the keys: Tyrant.iterkeys and Tyrant.keys.  The session  *)
(* holds the one cursor of the server: iterinit puts it before the first   *)
(* key, iternext answers the key under it and moves it on, and fails once  *)
(* it is past the last key.                                                *)
(***************************************************************************)
\* number of keys in the store that is iterated
MaxIterKeys == 3

\* the session of a store whose keys the server walks in the order `keys`
Session(keys) == [keys |-> keys, cursor |-> 0]

\* proto.iterinit()
proto_iterinit(s) == [s EXCEPT !.cursor = 0]

\* proto.iternext(): the key and the session afterwards, or TyrantError
proto_iternext(s) ==
    IF s.cursor < Len(s.keys)
    THEN [status |-> "ok", key |-> Some(s.keys[s.cursor + 1]),
          session |-> [s EXCEPT !.cursor = @ + 1]]
    ELSE [status |-> "TyrantError", key |-> None, session |-> s]

\* the generator t.iterkeys() returns: nothing of its body has run.
\* yielded, inits and alone are kept for the properties: the keys yielded
\* so far, the number of iterinit calls, and whether no other generator was
\* advanced since this one was first advanced.
Tyrant_iterkeys == [pc |-> "new", yielded |-> <<>>, inits |-> 0, alone |-> TRUE]

\* no generator object
NoGenerator == [Tyrant_iterkeys EXCEPT !.pc = "none"]

\* the body of iterkeys calling iterinit before every iternext
Resume_init_every_time(s, g) ==
    With(proto_iternext(proto_iterinit(s)),
         LAMBDA r :
           IF r.status = "ok"
           THEN [session |-> r.session, status |-> "ok", value |-> r.key,
                 generator |-> [g EXCEPT !.pc = "yield",
                                         !.yielded = Append(@, Val(r.key)),
                                         !.inits = @ + 1]]
           ELSE [session |-> r.session, status |-> "StopIteration",
                 value |-> None,
                 generator |-> [g EXCEPT !.pc = "done", !.inits = @ + 1]])

\* next(g) on a generator g of iterkeys that is not exhausted: its body runs
\* from where it stopped (the start, or the yield) to the next yield or to
\* the end, which the caller sees as StopIteration
Resume(s, g) ==
    With(proto_iternext(IF g.pc = "new" THEN proto_iterinit(s) ELSE s),
         LAMBDA r :
           IF r.status = "ok"
           THEN [session |-> r.session, status |-> "ok", value |-> r.key,
                 generator |-> [g EXCEPT !.pc = "yield",
                                         !.yielded = Append(@, Val(r.key)),
                                         !.inits = IF g.pc = "new" THEN @ + 1
                                                   ELSE @]]
           ELSE [session |-> r.session, status |-> "StopIteration",
                 value |-> None,
                 generator |-> [g EXCEPT !.pc = "done",
                                         !.inits = IF g.pc = "new" THEN @ + 1
                                                   ELSE @]])

(***************************************************************************)
(* Specification of key iteration: generators of iterkeys on one session,  *)
(* each drained by its consumer (list(), as in keys()), the consumers      *)
(* taking turns in any order.                                              *)
(***************************************************************************)
\* the stores iterated: none to MaxIterKeys keys, named in the order in
\* which the server walks them
IterStores == {SubSeq(KeyNames, 1, n) : n \in 0..MaxIterKeys}

InitIter ==
    \E keys \in IterStores :
        /\ tyrant = Session(keys)
        /\ callers = [g \in Caller |-> NoGenerator]
        /\ conds = <<>>
        /\ lists = <<>>
        /\ queries = <<>>
        /\ caches = <<>>
        /\ nsearch = <<>>
        /\ nfetch = <<>>
        /\ sent = <<>>
        /\ ret = InitRet

\* the generators that have been advanced and are not exhausted
Open == {u \in Caller : callers[u].pc = "yield"}

\* g = t.iterkeys()
IterKeys(g) ==
    /\ callers[g].pc = "none"
    /\ callers' = [callers EXCEPT ![g] = Tyrant_iterkeys]
    /\ ret' = [op |-> "iterkeys", q |-> g, args |-> <<>>, status |-> "ok",
               value |-> None, replies |-> <<>>]
    /\ UNCHANGED <<conds, lists, queries, caches, nsearch, nfetch, sent, tyrant>>

\* next(g), as the consumer of generator g calls it until StopIteration
Advance(g) ==
    /\ callers[g].pc \in {"new", "yield"}
    /\ \E r \in {Resume(tyrant, callers[g])} :
          /\ tyrant' = r.session
          /\ callers' = [u \in Caller |->
                           IF u = g THEN r.generator
                           ELSE IF u \in Open
                           THEN [callers[u] EXCEPT !.alone = FALSE]
                           ELSE callers[u]]
          /\ ret' = [op |-> "next", q |-> g, args |-> <<>>,
                     status |-> r.status, value |-> r.value, replies |-> <<>>]
    /\ UNCHANGED <<conds, lists, queries, caches, nsearch, nfetch, sent>>

NextIter == \E g \in Caller : IterKeys(g) \/ Advance(g)

\* list(g) keeps calling next(g): a generator that can be advanced is
\* advanced in the end
SpecIter ==
    InitIter /\ [][NextIter]_vars /\ \A g \in Caller : WF_vars(Advance(g))

(***************************************************************************)
(* Properties of key iteration (SpecIter)                                  *)
(***************************************************************************)
\* the first n elements of a sequence
Prefix(l, n) == SubSeq(l, 1, n)

\* C31: a generator of iterkeys calls iterinit once, when it is first
\* advanced, and then yields what each iternext answers; the first failing
\* iternext ends it with StopIteration and nothing else is raised.  While
\* no other generator is advanced in between, it has yielded the keys of
\* the store up to the cursor, so that once ended it has yielded every key
\* exactly once, in the order of the server; and every generator that is
\* being drained ends.
C31_IterKeysYieldsEachKeyOnce ==
    /\ [](\A g \in Caller :
            /\ callers[g].inits = (IF callers[g].pc \in {"none", "new"} THEN 0 ELSE 1)
            /\ (callers[g].pc = "yield" /\ callers[g].alone)
                  => callers[g].yielded = Prefix(tyrant.keys, tyrant.cursor)
            /\ (callers[g].pc = "done" /\ callers[g].alone)
                  => callers[g].yielded = tyrant.keys
            /\ ret.op = "next" => ret.status \in {"ok", "StopIteration"}
            /\ (ret.op = "next" /\ ret.q = g /\ ret.status = "ok")
                  => /\ callers[g].pc = "yield"
                     /\ ret.value = Some(tyrant.keys[tyrant.cursor])
                     /\ callers[g].yielded[Len(callers[g].yielded)] = Val(ret.value)
            /\ (ret.op = "next" /\ ret.q = g /\ ret.status = "StopIteration")
                  => callers[g].pc = "done" /\ tyrant.cursor = Len(tyrant.keys))
    /\ \A g \in Caller : (callers[g].pc = "new") ~> (callers[g].pc = "done")

\* two generators advanced in turn on a store of three keys have both
\* ended, each has called iterinit once, and neither has seen every key
C31_Witness ==
    /\ Len(tyrant.keys) = 3
    /\ \A g \in 1..2 :
          /\ callers[g].pc = "done"
          /\ callers[g].inits = 1
          /\ ~callers[g].alone
          /\ \E k \in 1..3 :
                \A i \in 1..Len(callers[g].yielded) :
                    callers[g].yielded[i] # tyrant.keys[k]


(***************************************************************************)
(* The Query of the facade (pyrant.Query, returned by Tyrant.query).  Its  *)
(* cache is a dict from "offset_limit" to the result of the access; the    *)
(* dicts live in `caches`, so that two queries can hold the same one.      *)
(***************************************************************************)
MAX_RESULTS == 1000

\* number of searches counted for one offset and limit on one cache
MaxSearches == 2

\* Query.__init__, holding cache number `cache`
Tyrant_Query(cache) ==
    [conditions |-> <<>>, order |-> None, order_t |-> 0, cache |-> cache,
     literal |-> FALSE, dbtype |-> DBTYPETABLE]

\* Query._clone(): a new Query with a dict of its own
Tyrant_Query_clone(h, q) ==
    [queries |-> Append(h.queries,
                        [Tyrant_Query(Len(h.caches) + 1) EXCEPT
                           !.conditions = h.queries[q].conditions,
                           !.literal = h.queries[q].literal,
                           !.dbtype = h.queries[q].dbtype]),
     caches |-> Append(h.caches, <<>>)]

\* the column and the order code named by `name`, a sequence of the prefix
\* characters and the column
ParsedOrder(name) ==
    IF Len(name) > 0 /\ name[1] = "-"
    THEN IF Len(name) > 1 /\ name[2] = "#"
         THEN [order |-> SubSeq(name, 3, Len(name)), order_t |-> "RDBQONUMDESC"]
         ELSE [order |-> SubSeq(name, 2, Len(name)), order_t |-> "RDBQOSTRDESC"]
    ELSE IF Len(name) > 0 /\ name[1] = "#"
    THEN [order |-> SubSeq(name, 2, Len(name)), order_t |-> "RDBQONUMASC"]
    ELSE [order |-> name, order_t |-> "RDBQOSTRASC"]

\* whether order(name) finds the order of the receiver unchanged
SameOrder(self, p) ==
    /\ self.order = Some(p.order)
    /\ self.order_t = p.order_t

\* Query.order(name): the heap afterwards; the new query is the last one
Tyrant_Query_order(h, q, name) ==
    With(Tyrant_Query_clone(h, q),
         LAMBDA c :
           With(ParsedOrder(name),
                LAMBDA p :
                  [c EXCEPT
                     !.queries[Len(c.queries)] =
                        [@ EXCEPT !.order = Some(p.order),
                                  !.order_t = p.order_t,
                                  !.cache = IF SameOrder(h.queries[q], p)
                                            THEN h.queries[q].cache ELSE @]]))

\* an index k, and a slice start:stop with start and stop options
IndexArg(k) == [slice |-> FALSE, k |-> k, start |-> None, stop |-> None]
SliceArg(start, stop) == [slice |-> TRUE, k |-> 0, start |-> start, stop |-> stop]

\* the assertion at the top of __getitem__
SliceIntegrity(k) ==
    \/ ~k.slice /\ k.k >= 0
    \/ /\ k.slice
       /\ (IsNone(k.start) \/ Val(k.start) >= 0)
       /\ (IsNone(k.stop) \/ Val(k.stop) >= 0)

\* offset and limit of an access
Offset(k) == IF k.slice THEN (IF Truthy(k.start) THEN Val(k.start) ELSE 0) ELSE k.k
Limit(k) ==
    IF k.slice
    THEN (IF IsNone(k.stop) THEN MAX_RESULTS ELSE Val(k.stop) - Offset(k))
    ELSE 1

\* cache_key taken from the offset alone
cache_key_offset_only(offset, limit) == ToString(offset)

\* cache_key = "%s_%s" % (offset, limit)
cache_key(offset, limit) == ToString(offset) \o "_" \o ToString(limit)

\* the keys self._proto.search answers for a limit and an offset: the keys
\* of the table from the offset on, at most `limit` of them; what a limit
\* below one means is left open, and no search has a negative offset
SearchedKeys(offset, limit) ==
    IF offset < 0 THEN {<<>>}
    ELSE IF limit >= 1
    THEN {PySlice(AllKeys, offset, offset + limit)}
    ELSE {<<>>, PySlice(AllKeys, offset, Len(AllKeys))}

\* self._proto.get(key, self.literal): the record, columns NUL-separated
FacadeRecord(key) == <<"name", NUL, key>>

\* self._decorate(key, _parse_elem(self._proto.get(key, ...), self._dbtype))
Decorated(self, key) ==
    <<key, _parse_elem(FacadeRecord(key), self.dbtype, None).value>>

\* the requests of one access that is not answered from the dict
FacadeSearch(self, k) ==
    [type |-> "search", conditions |-> self.conditions, limit |-> Limit(k),
     offset |-> Offset(k), order_type |-> self.order_t,
     order_field |-> self.order]
FacadeGets(keys) == [i \in 1..Len(keys) |-> [type |-> "get", key |-> keys[i]]]

\* Query.__getitem__(k), `keys` being what the search answers if it is
\* sent: the dict afterwards, the requests sent, and the result or the
\* exception
Tyrant_Query__getitem__(h, q, k, keys) ==
    With(cache_key(Offset(k), Limit(k)),
         LAMBDA key :
           IF ~SliceIntegrity(k)
           THEN [status |-> "AssertionError", value |-> None, sent |-> <<>>,
                 cache |-> h.caches[h.queries[q].cache]]
           ELSE IF key \in DOMAIN h.caches[h.queries[q].cache]
           THEN [status |-> "ok",
                 value |-> Some(h.caches[h.queries[q].cache][key]),
                 sent |-> <<>>,
                 cache |-> h.caches[h.queries[q].cache]]
           ELSE IF ~k.slice /\ keys = <<>>
           THEN [status |-> "IndexError", value |-> None,
                 sent |-> <<FacadeSearch(h.queries[q], k)>>,
                 cache |-> h.caches[h.queries[q].cache]]
           ELSE With(IF k.slice
                     THEN [kind |-> "list",
                           v |-> [i \in 1..Len(keys) |->
                                     Decorated(h.queries[q], keys[i])]]
                     ELSE [kind |-> "tuple",
                           v |-> Decorated(h.queries[q], keys[1])],
                     LAMBDA result :
                       [status |-> "ok", value |-> Some(result),
                        sent |-> <<FacadeSearch(h.queries[q], k)>>
                                 \o FacadeGets(IF k.slice THEN keys
                                               ELSE <<keys[1]>>),
                        cache |-> (key :> result)
                                  @@ h.caches[h.queries[q].cache]]))

(***************************************************************************)
(* Specification of the facade's Query: t.query, re-ordered and accessed   *)
(* by index and by slice.  nsearch counts, for each dict, the searches     *)
(* sent for each offset and limit.                                         *)
(***************************************************************************)
\* the names given to order
FacadeOrderNames ==
    {<<"name">>, <<"-", "name">>, <<"#", "name">>, <<"-", "#", "name">>,
     <<"price">>}

\* the accesses made: query[-1], query[0], query[MaxKeys], query[0:1] and
\* query[:]
FacadeAccesses ==
    {IndexArg(-1), IndexArg(0), IndexArg(MaxKeys),
     SliceArg(Some(0), Some(1)), SliceArg(None, None)}

FacadeHeap == [queries |-> queries, caches |-> caches]

\* the searches counted so far for cache c with offset and limit p
Searched(c, p) == IF p \in DOMAIN nsearch[c] THEN nsearch[c][p] ELSE 0

InitFacade ==
    /\ queries = <<Tyrant_Query(1)>>
    /\ caches = << <<>> >>
    /\ nsearch = << <<>> >>
    /\ nfetch = <<>>
    /\ conds = <<>>
    /\ lists = <<>>
    /\ sent = <<>>
    /\ ret = InitRet
    /\ tyrant = NoTyrant
    /\ callers = NoCallers

\* queries[q].order(name)
FacadeOrder(q, name) ==
    /\ Len(queries) < MaxQueries
    /\ \E h \in {Tyrant_Query_order(FacadeHeap, q, name)} :
          /\ queries' = h.queries
          /\ caches' = h.caches
          /\ nsearch' = Append(nsearch, <<>>)
          /\ ret' = [op |-> "order", q |-> q, args |-> <<name>>,
                     status |-> "ok", value |-> Some(Len(h.queries)),
                     replies |-> <<>>]
    /\ sent' = <<>>
    /\ UNCHANGED <<conds, lists, nfetch, tyrant, callers>>

\* queries[q][k]
FacadeGetItem(q, k) ==
    /\ Searched(queries[q].cache, <<Offset(k), Limit(k)>>) < MaxSearches
    /\ \E keys \in SearchedKeys(Offset(k), Limit(k)) :
          \E r \in {Tyrant_Query__getitem__(FacadeHeap, q, k, keys)} :
             /\ caches' = [caches EXCEPT ![queries[q].cache] = r.cache]
             /\ sent' = r.sent
             /\ nsearch' = IF r.sent = <<>> THEN nsearch
                           ELSE [nsearch EXCEPT ![queries[q].cache] =
                                    (<<Offset(k), Limit(k)>> :>
                                        (Searched(queries[q].cache,
                                                  <<Offset(k), Limit(k)>>) + 1))
                                    @@ @]
             /\ ret' = [op |-> "facade_getitem", q |-> q, args |-> <<k>>,
                        status |-> r.status, value |-> r.value,
                        replies |-> IF r.sent = <<>> THEN <<>> ELSE <<keys>>]
    /\ UNCHANGED <<conds, lists, queries, nfetch, tyrant, callers>>

\* any query is re-ordered; the query made last is the one accessed
NextFacade ==
    \/ \E q \in 1..Len(queries), name \in FacadeOrderNames : FacadeOrder(q, name)
    \/ \E k \in FacadeAccesses : FacadeGetItem(Subject, k)

SpecFacade == InitFacade /\ [][NextFacade]_vars

(***************************************************************************)
(* Properties of the facade's Query (SpecFacade)                           *)
(***************************************************************************)
\* the offsets and limits of the accesses that pass the assertion
AccessedPairs ==
    {<<Offset(k), Limit(k)>> : k \in {a \in FacadeAccesses : SliceIntegrity(a)}}

=============================================================================
